---- MODULE Spec2Model ----
(***************************************************************************)
(* Model of the autonomous agent core: the plan -> execute -> reflect     *)
(* loop of server/agent/engine.ts (runAgent), the goal table and journal  *)
(* of server/agent/memory.ts, and the tool sandbox of server/agent/       *)
(* tools.ts.                                                               *)
(***************************************************************************)
EXTENDS Integers, Naturals, Sequences, FiniteSets, TLC

(***************************************************************************)
(* Bounds of the model.                                                    *)
(***************************************************************************)
MaxTasks == 3
MaxStepsBound == 2
MaxRetriesBound == 1
MaxResp == 3

(***************************************************************************)
(* Small helpers.                                                          *)
(***************************************************************************)
Range(s) == {s[k] : k \in 1..Len(s)}

SeqsUpTo(S, n) == UNION {[1..k -> S] : k \in 0..n}

(***************************************************************************)
(* The goal table of the ledger (memory.ts).  A goal has an id and a      *)
(* status; the table is a sequence in insertion order.                     *)
(***************************************************************************)
RunId == "run1"
OtherId == "goal0"

\* addGoal: push {id, status: "in_progress"} at the end of memory.goals.
addGoal(gs, id) == Append(gs, [id |-> id, status |-> "in_progress"])

\* goals.find(g => g.id === goalId): index of the first goal with that id, 0 if none.
findGoal(gs, id) ==
    IF \E k \in 1..Len(gs) : gs[k].id = id
    THEN CHOOSE k \in 1..Len(gs) :
            /\ gs[k].id = id
            /\ \A j \in 1..(k - 1) : gs[j].id # id
    ELSE 0

UpdateGoalStatusNoop(gs, id, st) == gs

\* updateGoalStatus: set the status of the first goal with that id, if any.
updateGoalStatus(gs, id, st) ==
    IF findGoal(gs, id) = 0 THEN gs
    ELSE [gs EXCEPT ![findGoal(gs, id)].status = st]

(***************************************************************************)
(* The journal of the ledger (memory.ts).  An entry has the id it was     *)
(* given when appended (the number of the append), a type and a goalId.   *)
(***************************************************************************)
CAP == 1000

SliceFirst(es, n) == IF Len(es) <= n THEN es ELSE SubSeq(es, 1, n)

\* entries.slice(-n): the last n entries; -0 is 0, and slice(0) is the whole array
SliceLast(es, n) ==
    IF n = 0 \/ Len(es) <= n THEN es ELSE SubSeq(es, Len(es) - n + 1, Len(es))

\* the eviction of addMemoryEntry, lines 366-368
Evict(es) == IF Len(es) > CAP THEN SliceLast(es, CAP) ELSE es

\* addMemoryEntry: load, push the entry, keep the last CAP entries, save.
addMemoryEntry(es, e) == Evict(Append(es, e))

Entry(n, type, goalId) == [id |-> n, type |-> type, goalId |-> goalId]

(***************************************************************************)
(* The Reflector's parsing of the model response (reflectOnTask).          *)
(* A response is a short sequence of tokens: "open" and "close" are the   *)
(* braces and "body" stands for a well-formed list of JSON members; it is *)
(* plain text when no braces surround it.  The verdict fields a          *)
(* well-formed object carries are given beside the tokens.                *)
(***************************************************************************)
Tokens == {"open", "close", "body"}
Responses == SeqsUpTo(Tokens, MaxResp)

\* A JS value used as a condition: true, false or undefined (a missing field).
JsValues == {"true", "false", "undefined"}
Truthy(v) == v = "true"

\* the confidence of an object that has no confidence member
Undefined == 0 - 1

\* response.match(/\{[\s\S]*\}/): greedy, from the first "{" to the last "}".
HasMatch(r) == \E a, b \in 1..Len(r) : a < b /\ r[a] = "open" /\ r[b] = "close"
FirstOpen(r) == CHOOSE a \in 1..Len(r) : r[a] = "open" /\ \A j \in 1..(a - 1) : r[j] # "open"
LastClose(r) == CHOOSE b \in 1..Len(r) : r[b] = "close" /\ \A j \in (b + 1)..Len(r) : r[j] # "close"
jsonMatch(r) == SubSeq(r, FirstOpen(r), LastClose(r))

\* JSON.parse succeeds on "{}" and on "{" members "}" only.
JsonParses(m) == m = <<"open", "close">> \/ m = <<"open", "body", "close">>

Parseable(r) == HasMatch(r) /\ JsonParses(jsonMatch(r))

\* what the Reflector finds in a response: no braces, braces around text that is not
\* JSON, or a JSON object
ResponseKind(r) ==
    IF ~HasMatch(r) THEN "nobraces"
    ELSE IF ~JsonParses(jsonMatch(r)) THEN "badjson"
    ELSE "object"

DefaultReflection ==
    [success |-> "true", shouldRetry |-> "false", confidence |-> 50, fallback |-> TRUE]

\* The object JSON.parse returns: the members' fields, or no field at all for "{}".
ParsedReflection(m, fields) ==
    IF m = <<"open", "close">>
    THEN [success |-> "undefined", shouldRetry |-> "undefined",
          confidence |-> Undefined, fallback |-> FALSE]
    ELSE [success |-> fields.success, shouldRetry |-> fields.shouldRetry,
          confidence |-> fields.confidence, fallback |-> FALSE]

ReflectOnTaskTrusting(r, fields) ==
    IF HasMatch(r) THEN ParsedReflection(jsonMatch(r), fields) ELSE DefaultReflection

reflectOnTask(r, fields) ==
    IF HasMatch(r) /\ JsonParses(jsonMatch(r))
    THEN ParsedReflection(jsonMatch(r), fields)
    ELSE DefaultReflection

Fields == [success : JsValues, shouldRetry : JsValues, confidence : {90}]
NoFields == [success |-> "undefined", shouldRetry |-> "undefined", confidence |-> Undefined]

(***************************************************************************)
(* The state of one run of runAgent.                                       *)
(***************************************************************************)
VARIABLES
    pc,            \* position in runAgent
    cfg,           \* finalConfig
    status,        \* state.status
    tasks,         \* state.tasks: sequence of [status, result, execs]
    currentTask,   \* state.currentTask
    stepsExecuted, \* state.stepsExecuted
    i,             \* the loop index of the for loop (1-based)
    retries,       \* local retries
    result,        \* local result
    resp,          \* what the Reflector found in the model response it was given
    reflection,    \* local reflection
    caught,        \* whether the run-level catch was entered
    goals,         \* memory.goals of the ledger
    call,          \* the tool call the sandbox executed last
    toolResult,    \* the ToolResult of that call
    ioLog,         \* the filesystem and process operations that call performed
    disk,          \* the lines of the file apply_patch works on, as on disk
    original,      \* the lines apply_patch read from the file
    edits,         \* args.edits of the apply_patch call
    patchResult,   \* the ToolResult of the apply_patch call
    writes,        \* number of writeFile calls apply_patch made
    entries,       \* memory.entries of the ledger file
    appended,      \* number of addMemoryEntry calls so far
    lastEmit,      \* the snapshot the update callback was given last
    agentClients,  \* gateway: run id -> the subscriber sinks, in registration order
    activeAgents,  \* gateway: run id -> the state stored last (0: none)
    received,      \* gateway: sink -> the events written to it
    sinkRun,       \* gateway: sink -> the run whose stream it asked for
    sinkOpen,      \* gateway: sink -> whether its connection is open
    broken,        \* gateway: the sinks whose write throws
    emitted,       \* gateway: run id -> number of broadcasts made
    connectedAt,   \* gateway: sink -> number of broadcasts made when it connected
    procPc,        \* shared ledger: worker process -> position in its ledger call
    procMem,       \* shared ledger: worker process -> the memory object it loaded
    procOp,        \* shared ledger: worker process -> the call it is making
    completed,     \* shared ledger: the calls that have returned
    resumePc,      \* position in resumeUnfinishedGoals
    unfinished,    \* the GoalRecords resumeUnfinishedGoals still has to run
    stateId,       \* the id of the run resumeUnfinishedGoals started last
    goalsBefore,   \* memory.goals when resumeUnfinishedGoals was called
    resumed,       \* the (GoalRecord id, run id) pairs resumeUnfinishedGoals has run
    job,           \* worker: job.data.agentId and the status of the state runAgent returned
    jobPc,         \* position in the worker's processing function
    callbacks,     \* worker: the state-change callbacks, each with its position
    redisLog,      \* worker: the commands issued to the store and the topic, in order
    jobError,      \* worker: the message of the error the job failed with
    recentPc,      \* position in a call of getRecentMemory
    recentArgs,    \* the limit and goalId that call was given
    recentOut,     \* the entries that call returned
    llmPc,         \* position in a call of callLLM
    provider,      \* what the completion provider does with that call's request
    llmOut,        \* the string callLLM returned
    timer,         \* run_command: the timeout timer
    child,         \* run_command: the child process and the events it has emitted
    promise,       \* run_command: the ToolResult the promise is settled with
    resolveCalls,  \* run_command: number of calls of resolve so far
    stdoutChunks,  \* run_command: number of data chunks appended to stdout
    stderrChunks,  \* run_command: number of data chunks appended to stderr
    response,      \* the model response executeTaskWithTools was given
    toolOutput,    \* the ToolOutput of the tool call it made
    runsPc,        \* position in a succession of runAgent invocations
    runsDone,      \* the runs that have returned, each with its id and how it ended
    fileDoc        \* torn ledger: what the bytes of the ledger file are

runVars == <<pc, cfg, status, tasks, currentTask, stepsExecuted, i, retries,
             result, resp, reflection, caught, goals, lastEmit>>
toolVars == <<call, toolResult, ioLog>>
patchVars == <<disk, original, edits, patchResult, writes>>
ledgerVars == <<entries, appended>>
gatewayVars == <<agentClients, activeAgents, received, sinkRun, sinkOpen, broken, emitted,
                 connectedAt>>
sharedVars == <<procPc, procMem, procOp, completed>>
resumeVars == <<resumePc, unfinished, stateId, goalsBefore, resumed>>
workerVars == <<job, jobPc, callbacks, redisLog, jobError>>
serviceVars == <<gatewayVars, sharedVars, resumeVars, workerVars>>
recentVars == <<recentPc, recentArgs, recentOut>>
llmVars == <<llmPc, provider, llmOut>>
watchdogVars == <<timer, child, promise, resolveCalls, stdoutChunks, stderrChunks>>
execVars == <<response, toolOutput>>
lastVars == <<runsPc, runsDone, fileDoc>>
laterVars == <<recentVars, llmVars, watchdogVars, execVars, lastVars>>
extVars == <<serviceVars, laterVars>>

vars == <<runVars, toolVars, patchVars, ledgerVars, extVars>>

Configs ==
    [maxSteps : 0..MaxStepsBound, maxRetries : 0..MaxRetriesBound,
     autonomousMode : BOOLEAN, reflectionEnabled : BOOLEAN]

NoReflection ==
    [success |-> "none", shouldRetry |-> "none", confidence |-> Undefined, fallback |-> FALSE]
NoResp == "none"

NoCall == [tool |-> "none", paths |-> <<>>, cmd |-> "", exists |-> FALSE, rangeOk |-> FALSE]
NoResult == [ok |-> FALSE, code |-> "none"]

\* the runs a gateway serves, the subscriber sinks and the worker processes
Runs == {"r1", "r2"}
Sinks == {"s1", "s2", "s3"}
Procs == {"w1", "w2"}

NoSnapshot == [status |-> "none", tasks |-> <<>>, stepsExecuted |-> 0, currentTask |-> 0]
NoOp == [kind |-> "none", id |-> "", status |-> "", n |-> 0]
NoMem == [entries |-> <<>>, goals |-> <<>>]

GatewayIdle ==
    /\ agentClients = [r \in Runs |-> <<>>]
    /\ activeAgents = [r \in Runs |-> 0]
    /\ received = [s \in Sinks |-> <<>>]
    /\ sinkRun = [s \in Sinks |-> "none"]
    /\ sinkOpen = [s \in Sinks |-> FALSE]
    /\ broken = {}
    /\ emitted = [r \in Runs |-> 0]
    /\ connectedAt = [s \in Sinks |-> 0]

SharedIdle ==
    /\ procPc = [w \in Procs |-> "idle"]
    /\ procMem = [w \in Procs |-> NoMem]
    /\ procOp = [w \in Procs |-> NoOp]
    /\ completed = {}

ResumeIdle ==
    /\ resumePc = "off"
    /\ unfinished = <<>>
    /\ stateId = ""
    /\ goalsBefore = <<>>
    /\ resumed = <<>>

NoJob == [agentId |-> "none", status |-> "none"]

WorkerIdle ==
    /\ job = NoJob
    /\ jobPc = "off"
    /\ callbacks = <<>>
    /\ redisLog = <<>>
    /\ jobError = ""

ServiceIdle == GatewayIdle /\ SharedIdle /\ ResumeIdle /\ WorkerIdle

NoGoalId == "undefined"
NoArgs == [limit |-> 0, goalId |-> NoGoalId]

RecentIdle ==
    /\ recentPc = "off"
    /\ recentArgs = NoArgs
    /\ recentOut = <<>>

NoProvider == [kind |-> "none", content |-> "undefined"]

LlmIdle ==
    /\ llmPc = "off"
    /\ provider = NoProvider
    /\ llmOut = <<>>

NoChild == [state |-> "none", killed |-> FALSE, error |-> FALSE, closed |-> FALSE]

\* a promise nothing has resolved yet
Pending == [ok |-> FALSE, code |-> "none", exit |-> "none", stdout |-> 0, stderr |-> 0]

WatchdogIdle ==
    /\ timer = "off"
    /\ child = NoChild
    /\ promise = Pending
    /\ resolveCalls = 0
    /\ stdoutChunks = 0
    /\ stderrChunks = 0

NoResponse == [kind |-> "none", tool |-> "none", fault |-> "none"]
NoOutput == [success |-> FALSE, error |-> "none", thrown |-> FALSE]

ExecIdle ==
    /\ response = NoResponse
    /\ toolOutput = NoOutput

LastIdle ==
    /\ runsPc = "off"
    /\ runsDone = <<>>
    /\ fileDoc = "whole"

LaterIdle == RecentIdle /\ LlmIdle /\ WatchdogIdle /\ ExecIdle /\ LastIdle

ExtIdle == ServiceIdle /\ LaterIdle

ToolIdle ==
    /\ call = NoCall
    /\ toolResult = NoResult
    /\ ioLog = {}

PatchIdle ==
    /\ disk = <<>>
    /\ original = <<>>
    /\ edits = <<>>
    /\ patchResult = NoResult
    /\ writes = 0

LedgerIdle ==
    /\ entries = <<>>
    /\ appended = 0

RunIdle ==
    /\ pc = "off"
    /\ cfg = [maxSteps |-> 0, maxRetries |-> 0, autonomousMode |-> FALSE,
              reflectionEnabled |-> FALSE]
    /\ status = "idle"
    /\ tasks = <<>>
    /\ currentTask = 0
    /\ stepsExecuted = 0
    /\ i = 0
    /\ retries = 0
    /\ result = ""
    /\ resp = NoResp
    /\ reflection = NoReflection
    /\ caught = FALSE
    /\ goals = <<>>
    /\ lastEmit = NoSnapshot

Init ==
    /\ ToolIdle /\ PatchIdle /\ LedgerIdle /\ ExtIdle
    /\ lastEmit = NoSnapshot
    /\ pc = "idle"
    /\ cfg \in Configs
    /\ status = "idle"
    /\ tasks = <<>>
    /\ currentTask = 0
    /\ stepsExecuted = 0
    /\ i = 0
    /\ retries = 0
    /\ result = ""
    /\ resp = NoResp
    /\ reflection = NoReflection
    /\ caught = FALSE
    /\ goals = <<[id |-> OtherId, status |-> "in_progress"]>>

\* what an observer sees of the state object handed to onUpdate
Snapshot(st, ts, steps, cur) ==
    [status |-> st,
     tasks |-> [k \in 1..Len(ts) |-> [status |-> ts[k].status, result |-> ts[k].result]],
     stepsExecuted |-> steps,
     currentTask |-> cur]

\* emit(), line 224: the callback is given the state as it is at the call
emit(st, ts, steps) == lastEmit' = Snapshot(st, ts, steps, currentTask)

\* a call of addMemoryEntry(type, ..., stateId) by the run
Journal(type) ==
    /\ entries' = addMemoryEntry(entries, Entry(appended + 1, type, RunId))
    /\ appended' = appended + 1

\* runAgent, lines 207-230: build the state, record the goal.
runAgent ==
    /\ pc = "idle"
    /\ pc' = "plan"
    /\ status' = "planning"
    /\ goals' = addGoal(goals, RunId)
    /\ Journal("goal")
    /\ emit("planning", tasks, stepsExecuted)
    /\ UNCHANGED <<extVars, toolVars, patchVars, cfg, tasks, currentTask, stepsExecuted, i, retries, result,
                   resp, reflection, caught>>

\* planTasks returns n tasks, all pending (lines 234-242); the for loop starts.
planTasks ==
    /\ pc = "plan"
    /\ \E n \in 0..MaxTasks :
          tasks' = [k \in 1..n |-> [status |-> "pending", result |-> "none", execs |-> 0]]
    /\ i' = 1
    /\ pc' = "loop"
    /\ Journal("decision")
    /\ emit(status, tasks', stepsExecuted)
    /\ UNCHANGED <<extVars, toolVars, patchVars, cfg, status, currentTask, stepsExecuted, retries, result,
                   resp, reflection, caught, goals>>

PlannerUnhandled == "thrown"

\* where an exception of line 234 goes: the call is inside the try of line 232
PlannerHandler == "catch"

\* planTasks (its gateway call) throws: control goes to the run-level catch.
planThrows ==
    /\ pc = "plan"
    /\ pc' = PlannerHandler
    /\ UNCHANGED <<extVars, toolVars, patchVars, ledgerVars, cfg, status, tasks, currentTask, stepsExecuted, i, retries,
                   result, resp, reflection, caught, goals, lastEmit>>

\* for-loop condition false (line 244): leave the loop.
loopExit ==
    /\ pc = "loop"
    /\ i > Len(tasks)
    /\ pc' = "postLoop"
    /\ UNCHANGED <<extVars, toolVars, patchVars, ledgerVars, cfg, status, tasks, currentTask, stepsExecuted, i, retries,
                   result, resp, reflection, caught, goals, lastEmit>>

BudgetReachedStrict == stepsExecuted > cfg.maxSteps

\* the budget test of line 245
BudgetReached == stepsExecuted >= cfg.maxSteps

\* lines 245-253: budget exhausted, pause and break.
budgetStop ==
    /\ pc = "loop"
    /\ i <= Len(tasks)
    /\ BudgetReached
    /\ status' = "paused"
    /\ pc' = "postLoop"
    /\ UNCHANGED <<extVars, toolVars, patchVars, ledgerVars, cfg, tasks, currentTask, stepsExecuted, i, retries, result,
                   resp, reflection, caught, goals, lastEmit>>

CurrentTaskZeroBased(k) == k - 1

\* line 256: state.currentTask = i + 1, the position of the task counted from 1
\* (k is that position, the loop index of the model)
CurrentTaskOf(k) == k

\* lines 255-266: start task i.
startTask ==
    /\ pc = "loop"
    /\ i <= Len(tasks)
    /\ ~BudgetReached
    /\ currentTask' = CurrentTaskOf(i)
    /\ tasks' = [tasks EXCEPT ![i].status = "running"]
    /\ status' = "executing"
    /\ retries' = 0
    /\ result' = ""
    /\ reflection' = NoReflection
    /\ pc' = "while"
    /\ lastEmit' = Snapshot("executing", tasks', stepsExecuted, currentTask')
    /\ UNCHANGED <<extVars, toolVars, patchVars, ledgerVars, cfg, stepsExecuted, i, resp, caught, goals>>

\* line 268: the condition of the retry loop.
whileEnter ==
    /\ pc = "while"
    /\ retries <= cfg.maxRetries
    /\ pc' = "exec"
    /\ UNCHANGED <<extVars, toolVars, patchVars, ledgerVars, cfg, status, tasks, currentTask, stepsExecuted, i, retries,
                   result, resp, reflection, caught, goals, lastEmit>>

whileExit ==
    /\ pc = "while"
    /\ ~(retries <= cfg.maxRetries)
    /\ pc' = "taskEnd"
    /\ UNCHANGED <<extVars, toolVars, patchVars, ledgerVars, cfg, status, tasks, currentTask, stepsExecuted, i, retries,
                   result, resp, reflection, caught, goals, lastEmit>>

\* lines 270-283 and 305-309: the Executor returned the string r.
executorReturned(r) ==
    /\ pc = "exec"
    /\ result' = r
    /\ stepsExecuted' = stepsExecuted + 1
    /\ IF cfg.reflectionEnabled
       THEN /\ status' = "reflecting"
            /\ tasks' = [tasks EXCEPT ![i].execs = @ + 1]
            /\ pc' = "reflect"
       ELSE /\ status' = status
            /\ tasks' = [tasks EXCEPT ![i].execs = @ + 1, ![i].status = "done"]
            /\ pc' = "taskEnd"
    /\ emit(IF cfg.reflectionEnabled THEN "reflecting" ELSE status,
            tasks, stepsExecuted + 1)
    /\ UNCHANGED <<toolVars, patchVars, cfg, currentTask, i, retries,
                   resp, reflection, caught, goals>>

\* the Executor returns a result string: the text of the model response
executorReturns ==
    /\ executorReturned("output")
    /\ UNCHANGED <<extVars, ledgerVars>>

\* line 270: the Executor threw; the invocation still counts as one.
executorThrew ==
    /\ pc = "exec"
    /\ tasks' = [tasks EXCEPT ![i].execs = @ + 1]
    /\ pc' = "catchTask"
    /\ UNCHANGED <<toolVars, patchVars, ledgerVars, cfg, status, currentTask,
                   stepsExecuted, i, retries, result, resp, reflection, caught, goals,
                   lastEmit>>

\* the Executor's gateway call throws
executorThrows ==
    /\ executorThrew
    /\ UNCHANGED extVars

\* what reflectOnTask can return, over every response and the fields its object
\* carries: what it found in the response, and the verdict
ReflectorOutcomes ==
    UNION {{[kind |-> ResponseKind(r), verdict |-> reflectOnTask(r, f)] :
               f \in (IF Parseable(r) /\ "body" \in Range(r) THEN Fields ELSE {NoFields})} :
           r \in Responses}

\* lines 284-292: the Reflector returns the verdict parsed from a response; it has
\* journalled a decision entry when the response held a JSON object (lines 180-186).
reflectorReturns ==
    /\ pc = "reflect"
    /\ \E o \in ReflectorOutcomes :
          /\ resp' = o.kind
          /\ reflection' = o.verdict
          /\ IF o.kind = "object" THEN Journal("decision") ELSE UNCHANGED ledgerVars
    /\ pc' = "decide"
    /\ emit(status, tasks, stepsExecuted)
    /\ UNCHANGED <<extVars, toolVars, patchVars, cfg, status, tasks, currentTask, stepsExecuted, i, retries,
                   result, caught, goals>>

ReflectorUnhandled == "thrown"

\* where an exception of line 284 goes: the call is inside the try of line 269
ReflectorHandler == "catchTask"

\* line 284: the Reflector's gateway call throws.
reflectorThrows ==
    /\ pc = "reflect"
    /\ pc' = ReflectorHandler
    /\ UNCHANGED <<extVars, toolVars, patchVars, ledgerVars, cfg, status, tasks, currentTask, stepsExecuted, i, retries,
                   result, resp, reflection, caught, goals, lastEmit>>

RetryOnVerdictUnbounded == Truthy(reflection.shouldRetry)

\* the test of line 294
RetryOnVerdict == Truthy(reflection.shouldRetry) /\ retries < cfg.maxRetries

\* lines 294-304 and 309: retry on the verdict, or settle the task's status.
decide ==
    /\ pc = "decide"
    /\ IF RetryOnVerdict
       THEN /\ retries' = retries + 1
            /\ tasks' = tasks
            /\ pc' = "while"
       ELSE /\ retries' = retries
            /\ tasks' = [tasks EXCEPT
                  ![i].status = IF Truthy(reflection.success) THEN "done" ELSE "failed"]
            /\ pc' = "taskEnd"
    /\ resp' = NoResp
    /\ UNCHANGED <<extVars, toolVars, patchVars, ledgerVars, cfg, status, currentTask, stepsExecuted, i, result,
                   reflection, caught, goals, lastEmit>>

\* lines 310-321: the catch of the retry loop.
catchTask ==
    /\ pc = "catchTask"
    /\ retries' = retries + 1
    /\ IF retries + 1 > cfg.maxRetries
       THEN tasks' = [tasks EXCEPT ![i].status = "failed", ![i].result = "Failed after"]
       ELSE tasks' = tasks
    /\ pc' = "while"
    /\ UNCHANGED <<extVars, toolVars, patchVars, ledgerVars, cfg, status, currentTask, stepsExecuted, i, result, resp,
                   reflection, caught, goals, lastEmit>>

HaltOnFailureAlways(t) == t.status = "failed"
HaltOnFailureNever(t) == FALSE

\* the test of line 334
HaltOnFailure(t) == t.status = "failed" /\ ~cfg.autonomousMode

\* lines 324-343: write the result back; halt on failure unless autonomous.  The
\* locals retries, result and reflection end with the iteration.
taskEnd ==
    /\ pc = "taskEnd"
    /\ tasks' = [tasks EXCEPT ![i].result = result]
    /\ IF HaltOnFailure(tasks[i])
       THEN /\ status' = "failed"
            /\ i' = i
            /\ pc' = "postLoop"
       ELSE /\ status' = status
            /\ i' = i + 1
            /\ pc' = "loop"
    /\ retries' = 0
    /\ result' = ""
    /\ reflection' = NoReflection
    /\ Journal("task")
    /\ emit(status, tasks', stepsExecuted)
    /\ UNCHANGED <<extVars, toolVars, patchVars, cfg, currentTask, stepsExecuted, resp,
                   caught, goals>>

AllDoneNonEmpty == Len(tasks) > 0 /\ \A k \in 1..Len(tasks) : tasks[k].status = "done"

\* line 345: state.tasks.every(t => t.status === "done"), true of an empty list
allDone == \A k \in 1..Len(tasks) : tasks[k].status = "done"
anyFailed == \E k \in 1..Len(tasks) : tasks[k].status = "failed"

\* lines 345-356: the final status after the loop.
postLoop ==
    /\ pc = "postLoop"
    /\ IF allDone
       THEN /\ status' = "completed"
            /\ goals' = updateGoalStatus(goals, RunId, "completed")
       ELSE IF anyFailed
       THEN /\ status' = "failed"
            /\ goals' = updateGoalStatus(goals, RunId, "failed")
       ELSE /\ status' = status
            /\ goals' = goals
    /\ pc' = "emit"
    /\ UNCHANGED <<extVars, toolVars, patchVars, ledgerVars, cfg, tasks, currentTask, stepsExecuted, i, retries, result,
                   resp, reflection, caught, lastEmit>>

\* lines 357-361: the run-level catch.
catchRun ==
    /\ pc = "catch"
    /\ status' = "failed"
    /\ goals' = updateGoalStatus(goals, RunId, "failed")
    /\ caught' = TRUE
    /\ pc' = "emit"
    /\ UNCHANGED <<extVars, toolVars, patchVars, ledgerVars, cfg, tasks, currentTask, stepsExecuted, i, retries, result,
                   resp, reflection, lastEmit>>

FinalEmitSkipped == lastEmit

\* the emit of line 363, on every path out of the try
FinalEmit == Snapshot(status, tasks, stepsExecuted, currentTask)

\* lines 363-364: the last emit, and the return of the state.
returnState ==
    /\ pc = "emit"
    /\ pc' = "returned"
    /\ lastEmit' = FinalEmit
    /\ UNCHANGED <<extVars, toolVars, patchVars, ledgerVars, cfg, status, tasks, currentTask, stepsExecuted, i, retries,
                   result, resp, reflection, caught, goals>>

Next ==
    \/ runAgent
    \/ planTasks
    \/ planThrows
    \/ loopExit
    \/ budgetStop
    \/ startTask
    \/ whileEnter
    \/ whileExit
    \/ executorReturns
    \/ executorThrows
    \/ reflectorReturns
    \/ reflectorThrows
    \/ decide
    \/ catchTask
    \/ taskEnd
    \/ postLoop
    \/ catchRun
    \/ returnState

Spec == Init /\ [][Next]_vars

\* every call runAgent awaits returns or throws, and the event loop runs runAgent on
SpecRunLive == Spec /\ WF_vars(Next)

(***************************************************************************)
(* Properties of runAgent.                                                 *)
(***************************************************************************)
Returned == pc = "returned"

\* the status of the run's GoalRecord
GoalStatus(id) == IF findGoal(goals, id) = 0 THEN "absent" ELSE goals[findGoal(goals, id)].status

TaskIds == 1..Len(tasks)

\* C1: in a non-autonomous run, once a task is failed every task before it is done,
\* every task after it is pending and its Executor was never invoked, and the Run
\* that is returned has status failed.
C1_NonAutonomousHalt ==
    ~cfg.autonomousMode =>
       \A k \in TaskIds :
          tasks[k].status = "failed" =>
             /\ \A j \in 1..(k - 1) : tasks[j].status = "done"
             /\ \A j \in (k + 1)..Len(tasks) :
                   tasks[j].status = "pending" /\ tasks[j].execs = 0
             /\ Returned => status = "failed"

C1_Witness ==
    /\ Returned /\ ~cfg.autonomousMode /\ Len(tasks) = 3
    /\ tasks[1].status = "done" /\ tasks[2].status = "failed"
    /\ tasks[3].status = "pending" /\ status = "failed"

\* C2: in an autonomous run that returned without a run-level exception, every task
\* after a failed one was started and its Executor invoked, unless the step budget
\* was used up.
C2_AutonomousContinues ==
    (Returned /\ cfg.autonomousMode /\ ~caught) =>
       \A k \in TaskIds :
          tasks[k].status = "failed" =>
             \A j \in (k + 1)..Len(tasks) :
                \/ tasks[j].execs >= 1 /\ tasks[j].status \in {"done", "failed"}
                \/ stepsExecuted >= cfg.maxSteps

C2_Witness ==
    /\ Returned /\ cfg.autonomousMode /\ Len(tasks) = 3
    /\ tasks[2].status = "failed" /\ tasks[3].execs >= 1 /\ tasks[3].status = "done"

\* C3: whenever the status is paused, stepsExecuted is at most maxSteps.
C3_StepBudget == status = "paused" => stepsExecuted <= cfg.maxSteps

\* C4: no exception of the Planner, the Executor or the Reflector leaves runAgent;
\* the Run it returns is completed, failed or paused; and after the run-level catch
\* the Run and its GoalRecord are failed.
C4_NeverThrows ==
    /\ pc # "thrown"
    /\ Returned => status \in {"completed", "failed", "paused"}
    /\ (Returned /\ caught) => (status = "failed" /\ GoalStatus(RunId) = "failed")

C4_Witness == Returned /\ caught /\ status = "failed" /\ GoalStatus(RunId) = "failed"

\* the GoalRecord follows the status of the returned Run
GoalFollowsStatus ==
    /\ status = "completed" => GoalStatus(RunId) = "completed"
    /\ status = "failed" => GoalStatus(RunId) = "failed"
    /\ status = "paused" => GoalStatus(RunId) = "in_progress"

C6_ReflectionFallback ==
    [][ /\ (pc' = "decide" /\ resp' \in {"nobraces", "badjson"}) =>
              /\ reflection' = DefaultReflection
              /\ reflection'.success = "true" /\ reflection'.shouldRetry = "false"
              /\ reflection'.confidence = 50
        /\ (pc = "decide" /\ resp \in {"nobraces", "badjson"}) =>
              /\ tasks'[i].status = "done"
              /\ tasks'[i].execs = tasks[i].execs
              /\ retries' = retries
              /\ pc' = "taskEnd" ]_vars

C6_Witness ==
    /\ pc = "decide" /\ resp = "badjson"
    /\ reflection = DefaultReflection

\* C15: a run whose Planner returned no tasks, or whose run-level catch was entered,
\* returns with status failed and its GoalRecord marked failed.
C15_RunLevelErrorsFail ==
    (Returned /\ (Len(tasks) = 0 \/ caught)) =>
       /\ status = "failed"
       /\ GoalStatus(RunId) = "failed"

\* C16: whatever the outcome, the snapshot given to the update callback last has the
\* status, tasks and stepsExecuted of the state runAgent returns.
C16_TerminalStateObservable ==
    Returned =>
       /\ lastEmit = Snapshot(status, tasks, stepsExecuted, currentTask)
       /\ lastEmit.status \in {"completed", "failed", "paused"}

C16_Witness ==
    /\ Returned /\ caught
    /\ lastEmit.status = "failed" /\ lastEmit.tasks = <<>>

\* C23: for every task the Executor is invoked at most maxRetries+1 times, every
\* invocation after the first having cost one retry of the one counter, whether a
\* verdict or a thrown error caused it; and after a Reflector verdict the Executor is
\* invoked again for the task only if shouldRetry is true and fewer than maxRetries
\* retries have been used.
C23_RetryBound ==
    /\ [](\A k \in TaskIds : tasks[k].execs <= cfg.maxRetries + 1)
    /\ [](pc = "exec" => (tasks[i].execs = retries /\ retries <= cfg.maxRetries))
    /\ [][(pc = "decide" /\ pc' # "decide") =>
             IF Truthy(reflection.shouldRetry) /\ retries < cfg.maxRetries
             THEN pc' = "while" /\ retries' = retries + 1
             ELSE pc' = "taskEnd" /\ tasks'[i].execs = tasks[i].execs]_vars

C23_Witness ==
    /\ pc = "decide" /\ Truthy(reflection.shouldRetry)
    /\ cfg.maxRetries >= 1 /\ retries = cfg.maxRetries
    /\ tasks[i].execs = cfg.maxRetries + 1

\* the for loop was left by the budget check of line 245: task i was not started
\* (a halt leaves task i failed, the end of the list leaves i beyond it)
BudgetStopped ==
    /\ pc \in {"postLoop", "emit", "returned"} /\ ~caught
    /\ i <= Len(tasks) /\ tasks[i].status = "pending"

\* C24: when the budget check stops the loop at a task, that task and the later ones
\* are never started and stay pending, and the Run that is returned has status
\* paused, whatever the mode and the outcomes of the earlier tasks.
C24_BudgetStop ==
    BudgetStopped =>
       /\ \A k \in i..Len(tasks) : tasks[k].status = "pending" /\ tasks[k].execs = 0
       /\ Returned => status = "paused"

\* the Planner returned an empty list of tasks
EmptyPlan == pc \in {"loop", "postLoop", "emit", "returned"} /\ Len(tasks) = 0 /\ ~caught

\* C25: when the Planner returns zero tasks, the Executor and the Reflector are never
\* invoked, stepsExecuted stays 0, and the run ends with status completed and its
\* GoalRecord marked completed.
C25_EmptyPlan ==
    /\ Len(tasks) = 0 =>
          pc \notin {"while", "exec", "reflect", "decide", "catchTask", "taskEnd"}
    /\ EmptyPlan =>
          /\ stepsExecuted = 0
          /\ status \notin {"executing", "reflecting"}
          /\ Returned =>
                /\ status = "completed" /\ GoalStatus(RunId) = "completed"
                /\ lastEmit.status = "completed"

C25_Witness ==
    /\ Returned /\ EmptyPlan
    /\ status = "completed" /\ GoalStatus(RunId) = "completed"

\* C26: when the retry loop of a task was left because throws used up the retry
\* budget (retries > maxRetries), the task ends failed and its result, in the
\* snapshot emitted at the end of the task and in the Run from then on, is the summary
\* error string.
C26_ExhaustedRetries ==
    [][(pc = "taskEnd" /\ pc' # "taskEnd" /\ retries > cfg.maxRetries) =>
          /\ tasks'[i].status = "failed"
          /\ tasks'[i].result = "Failed after"
          /\ lastEmit'.tasks[i].result = "Failed after"]_vars

\* C27: the Executor is invoked only while the status is executing, the Reflector only
\* while it is reflecting, and the status is not idle or planning once a task started.
C27_StatusTracksPhase ==
    /\ pc = "exec" => status = "executing"
    /\ pc = "reflect" => status = "reflecting"
    /\ currentTask >= 1 => status \notin {"idle", "planning"}

\* what C28 asks of one snapshot, the tasks being counted from 1 as currentTask is
SequentialTasks(snap) ==
    /\ Cardinality({k \in 1..Len(snap.tasks) : snap.tasks[k].status = "running"}) <= 1
    /\ \A k \in 1..Len(snap.tasks) :
          /\ k < snap.currentTask => snap.tasks[k].status \in {"done", "failed"}
          /\ k > snap.currentTask => snap.tasks[k].status = "pending"
    /\ 0 <= snap.currentTask /\ snap.currentTask <= Len(snap.tasks)

\* C28: in every emitted snapshot at most one task is running, the tasks before
\* currentTask are done or failed, the tasks after it are pending and currentTask is
\* between 0 and the number of tasks; and no task goes from done or failed back to
\* pending or running.
C28_SequentialTasks ==
    /\ [](SequentialTasks(lastEmit))
    /\ [][\A k \in TaskIds :
             tasks[k].status \in {"done", "failed"} =>
                /\ Len(tasks') = Len(tasks)
                /\ tasks'[k].status \notin {"pending", "running"}]_vars

C28_Witness ==
    /\ Len(lastEmit.tasks) = 3 /\ lastEmit.currentTask = 2
    /\ lastEmit.tasks[1].status = "failed" /\ lastEmit.tasks[2].status = "running"
    /\ lastEmit.tasks[3].status = "pending"

\* C31: every call of the Reflector that returns a verdict, parsed or the default,
\* appends exactly one entry to the journal, of type decision and with the run's id.
C31_ReflectorJournals ==
    [][(pc = "reflect" /\ pc' = "decide") =>
          /\ appended' = appended + 1
          /\ Len(entries') = Len(entries) + 1
          /\ entries'[Len(entries')] = Entry(appended + 1, "decision", RunId)]_vars

\* C39: for every task list, maxSteps and maxRetries, when every Planner, Executor,
\* Reflector and tool call returns or throws, runAgent returns, whatever the verdicts
\* are, shouldRetry true on every attempt included.
C39_RunAgentReturns == <>Returned

C39_Witness ==
    /\ Returned /\ cfg.reflectionEnabled /\ cfg.maxRetries = MaxRetriesBound
    /\ Len(tasks) = MaxTasks
    /\ tasks[1].execs = MaxRetriesBound + 1 /\ stepsExecuted = MaxRetriesBound + 1

(***************************************************************************)
(* The tool sandbox (tools.ts): path containment and the command          *)
(* allow-list.  A path is a sequence of segments, absolute or relative;   *)
(* its string is the segments joined by "/".  Tool arguments are the      *)
(* argument objects parseToolArgs returns.  The sandbox keeps no state     *)
(* between calls, so a behaviour is one call.                              *)
(***************************************************************************)
MaxPathLen == 2

Segs == {"..", ".", "ws", "wsx", "a"}
PathInputs == [abs : BOOLEAN, segs : SeqsUpTo(Segs, MaxPathLen)]

\* z.string().min(1): the empty string is no path for read_file and the like
NonEmptyPaths == {p \in PathInputs : p.abs \/ p.segs # <<>>}

\* WORKSPACE_ROOT, the directory /ws
WORKSPACE_ROOT == <<"ws">>

\* the characters of a segment's name
SegChars(seg) ==
    CASE seg = "ws" -> <<"w", "s">>
      [] seg = "wsx" -> <<"w", "s", "x">>
      [] seg = "a" -> <<"a">>
      [] seg = "." -> <<".">>
      [] seg = ".." -> <<".", ".">>

\* the string of an absolute normalised path: "/seg/seg" (the root directory "/" is never
\* used as a string here, the paths compared are those of path.resolve)
RECURSIVE PathString(_)
PathString(segs) ==
    IF segs = <<>> THEN <<>>
    ELSE <<"/">> \o SegChars(Head(segs)) \o PathString(Tail(segs))

\* normalisation done by path.resolve: "." is dropped, ".." removes the last segment
RECURSIVE Normalize(_, _)
Normalize(stack, segs) ==
    IF segs = <<>> THEN stack
    ELSE LET h == Head(segs) IN
         Normalize(IF h = "." THEN stack
                   ELSE IF h = ".."
                        THEN (IF stack = <<>> THEN stack ELSE SubSeq(stack, 1, Len(stack) - 1))
                        ELSE Append(stack, h),
                   Tail(segs))

\* path.resolve(WORKSPACE_ROOT, relOrAbs)
Resolve(p) == IF p.abs THEN Normalize(<<>>, p.segs) ELSE Normalize(WORKSPACE_ROOT, p.segs)

\* String.prototype.startsWith
StartsWith(str, prefix) ==
    Len(str) >= Len(prefix) /\ SubSeq(str, 1, Len(prefix)) = prefix

SafeResolveOpen(p) == TRUE

\* safeResolve does not throw: the resolved string starts with the root's string
safeResolve(p) == StartsWith(PathString(Resolve(p)), PathString(WORKSPACE_ROOT))

\* the resolved path is the workspace root or a descendant of it
InsideWorkspace(p) ==
    LET r == Resolve(p) IN
    Len(r) >= Len(WORKSPACE_ROOT) /\ SubSeq(r, 1, Len(WORKSPACE_ROOT)) = WORKSPACE_ROOT

Cmds == {"ls", "node", "rm", "sh"}

AllowAll == Cmds

\* ALLOWLIST of runCommandSandbox, restricted to the commands of the model
ALLOWLIST == {"npm", "pnpm", "yarn", "node", "npx", "ls", "pwd", "grep"} \cap Cmds

Op(op, p) == [op |-> op, path |-> Resolve(p), cmd |-> "", shell |-> FALSE]
Spawn(cmd, p) == [op |-> "spawn", path |-> Resolve(p), cmd |-> cmd, shell |-> FALSE]

Ok == [ok |-> TRUE, code |-> "ok"]
Err(code) == [ok |-> FALSE, code |-> code]

Call(tool, paths, cmd, exists, rangeOk) ==
    [tool |-> tool, paths |-> paths, cmd |-> cmd, exists |-> exists, rangeOk |-> rangeOk]

InitTools ==
    /\ RunIdle /\ PatchIdle /\ LedgerIdle /\ ExtIdle
    /\ ToolIdle

\* executeTool, case "get_file_tree" (lines 45-50); readdir errors are swallowed
getFileTreeTool ==
    /\ call = NoCall
    /\ \E p \in PathInputs :
       /\ call' = Call("get_file_tree", <<p>>, "", FALSE, FALSE)
       /\ IF safeResolve(p)
          THEN /\ ioLog' = {Op("readdir", p)}
               /\ toolResult' = Ok
          ELSE /\ ioLog' = {}
               /\ toolResult' = Err("TOOL_ERROR")
       /\ UNCHANGED <<extVars, runVars, patchVars, ledgerVars>>

\* executeTool, case "read_file" (lines 52-80)
readFileCase ==
    /\ call = NoCall
    /\ \E p \in NonEmptyPaths, exists \in BOOLEAN :
       /\ call' = Call("read_file", <<p>>, "", exists, FALSE)
       /\ IF safeResolve(p)
          THEN /\ ioLog' = {Op("readFile", p)}
               /\ toolResult' = IF exists THEN Ok ELSE Err("TOOL_ERROR")
          ELSE /\ ioLog' = {}
               /\ toolResult' = Err("TOOL_ERROR")
       /\ UNCHANGED <<extVars, runVars, patchVars, ledgerVars>>

\* executeTool, case "write_file" (lines 82-91), createDirs left at its default
writeFileCase ==
    /\ call = NoCall
    /\ \E p \in NonEmptyPaths :
       /\ call' = Call("write_file", <<p>>, "", FALSE, FALSE)
       /\ IF safeResolve(p)
          THEN /\ ioLog' = {Op("mkdir", p), Op("writeFile", p)}
               /\ toolResult' = Ok
          ELSE /\ ioLog' = {}
               /\ toolResult' = Err("TOOL_ERROR")
       /\ UNCHANGED <<extVars, runVars, patchVars, ledgerVars>>

\* executeTool, case "apply_patch" (lines 93-128), the edits seen as in range or not
applyPatchCase ==
    /\ call = NoCall
    /\ \E p \in NonEmptyPaths, exists \in BOOLEAN, rangeOk \in BOOLEAN :
       /\ call' = Call("apply_patch", <<p>>, "", exists, rangeOk)
       /\ IF ~safeResolve(p)
          THEN /\ ioLog' = {}
               /\ toolResult' = Err("TOOL_ERROR")
          ELSE IF ~exists
          THEN /\ ioLog' = {Op("stat", p)}
               /\ toolResult' = Err("NOT_FOUND")
          ELSE IF ~rangeOk
          THEN /\ ioLog' = {Op("stat", p), Op("readFile", p)}
               /\ toolResult' = Err("RANGE_ERROR")
          ELSE /\ ioLog' = {Op("stat", p), Op("readFile", p), Op("writeFile", p)}
               /\ toolResult' = Ok
       /\ UNCHANGED <<extVars, runVars, patchVars, ledgerVars>>

\* the paths of args.paths walked before the first one safeResolve rejects
RECURSIVE Walked(_)
Walked(ps) ==
    IF ps = <<>> THEN {}
    ELSE IF safeResolve(Head(ps)) THEN {Op("readdir", Head(ps))} \cup Walked(Tail(ps))
    ELSE {}

\* executeTool, case "search_in_files" (lines 130-172): the paths are taken in turn
searchInFilesCase ==
    /\ call = NoCall
    /\ \E ps \in (SeqsUpTo(NonEmptyPaths, 2) \ {<<>>}) :
       /\ call' = Call("search_in_files", ps, "", FALSE, FALSE)
       /\ ioLog' = Walked(ps)
       /\ toolResult' = IF \A k \in 1..Len(ps) : safeResolve(ps[k])
                        THEN Ok ELSE Err("TOOL_ERROR")
       /\ UNCHANGED <<extVars, runVars, patchVars, ledgerVars>>

RunCommandUnchecked(cmd, cwd, exit) ==
    /\ ioLog' = {Spawn(cmd, cwd)}
    /\ toolResult' = Ok

\* runCommandSandbox (lines 263-313); exit is how the child ends
runCommandSandbox(cmd, cwd, exit) ==
    IF cmd \notin ALLOWLIST
    THEN /\ ioLog' = {}
         /\ toolResult' = Err("CMD_NOT_ALLOWED")
    ELSE IF ~safeResolve(cwd)
    THEN /\ ioLog' = {}
         /\ toolResult' = Err("TOOL_ERROR")
    ELSE /\ ioLog' = {Spawn(cmd, cwd)}
         /\ toolResult' = CASE exit = "close" -> Ok
                            [] exit = "timeout" -> Err("TIMEOUT")
                            [] exit = "error" -> Err("SPAWN_ERROR")

\* executeTool, case "run_command" (lines 191-194)
runCommandCase ==
    /\ call = NoCall
    /\ \E cmd \in Cmds, cwd \in PathInputs, exit \in {"close", "timeout", "error"} :
       /\ call' = Call("run_command", <<cwd>>, cmd, FALSE, FALSE)
       /\ runCommandSandbox(cmd, cwd, exit)
       /\ UNCHANGED <<extVars, runVars, patchVars, ledgerVars>>

\* readFileTool.execute of the tool registry the engine uses (tools.ts, lines 20-43)
readFileTool ==
    /\ call = NoCall
    /\ \E p \in PathInputs, exists \in BOOLEAN :
       /\ call' = Call("readFileTool", <<p>>, "", exists, FALSE)
       /\ IF ~safeResolve(p)
          THEN /\ ioLog' = {}
               /\ toolResult' = Err("Access denied")
          ELSE IF ~exists
          THEN /\ ioLog' = {Op("existsSync", p)}
               /\ toolResult' = Err("File not found")
          ELSE /\ ioLog' = {Op("existsSync", p), Op("readFile", p)}
               /\ toolResult' = Ok
       /\ UNCHANGED <<extVars, runVars, patchVars, ledgerVars>>

NextTools ==
    \/ getFileTreeTool
    \/ readFileCase
    \/ writeFileCase
    \/ applyPatchCase
    \/ searchInFilesCase
    \/ runCommandCase
    \/ readFileTool

SpecTools == InitTools /\ [][NextTools]_vars

(***************************************************************************)
(* Properties of the tool sandbox.                                         *)
(***************************************************************************)
\* the resolved path is the root or below it, segment by segment
Contained(r) ==
    Len(r) >= Len(WORKSPACE_ROOT) /\ SubSeq(r, 1, Len(WORKSPACE_ROOT)) = WORKSPACE_ROOT

\* C7: a tool call with a path that resolves outside the workspace root fails, and no
\* filesystem or process operation is performed outside the root.
C7_PathContainment ==
    \A k \in 1..Len(call.paths) :
       ~InsideWorkspace(call.paths[k]) =>
          /\ ~toolResult.ok
          /\ \A o \in ioLog : Contained(o.path)

\* C8: run_command with a cmd outside the allow-list returns CMD_NOT_ALLOWED and spawns
\* nothing; whatever is spawned is spawned by run_command, for an allowed cmd, in a cwd
\* that safeResolve accepted, and without a shell.
C8_CommandAllowList ==
    /\ (call.tool = "run_command"
          /\ call.cmd \notin {"npm", "pnpm", "yarn", "node", "npx", "ls", "pwd", "grep"}) =>
             (toolResult = Err("CMD_NOT_ALLOWED") /\ ioLog = {})
    /\ \A o \in ioLog :
          o.op = "spawn" =>
             /\ call.tool = "run_command"
             /\ o.cmd = call.cmd
             /\ o.cmd \in {"npm", "pnpm", "yarn", "node", "npx", "ls", "pwd", "grep"}
             /\ StartsWith(PathString(o.path), PathString(WORKSPACE_ROOT))
             /\ o.path = Resolve(call.paths[1])
             /\ ~o.shell

C8_Witness ==
    /\ call.tool = "run_command" /\ call.cmd = "rm"
    /\ toolResult = Err("CMD_NOT_ALLOWED") /\ ioLog = {}

(***************************************************************************)
(* apply_patch (tools.ts, lines 93-128) on the content of one file.       *)
(* A file is the sequence of its lines (original.split); a file that does *)
(* not exist is the empty sequence, since split never returns it.         *)
(***************************************************************************)
MaxLines == 3
MaxEdits == 2

LineNames == <<"l1", "l2", "l3", "l4", "l5", "l6">>
Files == {SubSeq(LineNames, 1, n) : n \in 1..MaxLines}

\* e.newText.split: one line or two
Texts == {<<"X">>, <<"Y">>, <<"X", "Y">>}

\* startLine and endLine are integers >= 1 (ApplyPatchArgs)
EditArgs == [startLine : 1..(MaxLines + 1), endLine : 1..(MaxLines + 1), newText : Texts]
EditLists == SeqsUpTo(EditArgs, MaxEdits) \ {<<>>}

\* where e goes in a list sorted by descending startLine: after the edits that start
\* later, before those that start at the same line or earlier (the sort is stable)
RECURSIVE InsertDesc(_, _)
InsertDesc(e, sorted) ==
    IF sorted = <<>> THEN <<e>>
    ELSE IF Head(sorted).startLine > e.startLine
         THEN <<Head(sorted)>> \o InsertDesc(e, Tail(sorted))
         ELSE <<e>> \o sorted

RECURSIVE SortDesc(_)
SortDesc(es) == IF es = <<>> THEN <<>> ELSE InsertDesc(Head(es), SortDesc(Tail(es)))

SortedEditsAsGiven(es) == es

\* [...args.edits].sort((a, b) => b.startLine - a.startLine), line 106
SortedEdits(es) == SortDesc(es)

\* lines.splice(startIdx, endIdx - startIdx + 1, ...newLines), line 121
Splice(lines, e) ==
    SubSeq(lines, 1, e.startLine - 1) \o e.newText \o SubSeq(lines, e.endLine + 1, Len(lines))

\* the range test of line 111, on the lines as they are when the edit is reached
BadRange(lines, e) ==
    \/ e.startLine - 1 < 0
    \/ e.endLine - 1 < e.startLine - 1
    \/ e.endLine - 1 >= Len(lines)

\* the loop of lines 108-122: the lines after the edits, or a range error
RECURSIVE ApplyEdits(_, _)
ApplyEdits(lines, es) ==
    IF es = <<>> THEN [ok |-> TRUE, lines |-> lines]
    ELSE IF BadRange(lines, Head(es)) THEN [ok |-> FALSE, lines |-> lines]
    ELSE ApplyEdits(Splice(lines, Head(es)), Tail(es))

InitPatch ==
    /\ RunIdle /\ ToolIdle /\ LedgerIdle /\ ExtIdle
    /\ disk \in Files \cup {<<>>}
    /\ original = <<>>
    /\ edits \in EditLists
    /\ patchResult = NoResult
    /\ writes = 0

\* executeTool, case "apply_patch": the file does not exist (lines 97-100)
applyPatchNotFound ==
    /\ patchResult = NoResult
    /\ disk = <<>>
    /\ patchResult' = Err("NOT_FOUND")
    /\ UNCHANGED <<extVars, runVars, toolVars, ledgerVars, disk, original, edits, writes>>

PatchedDiskPartial(before, r) == r.lines

\* what is in the file when apply_patch returns: line 125 is reached only when no
\* edit returned RANGE_ERROR (lines 111-119)
PatchedDisk(before, r) == IF r.ok THEN r.lines ELSE before

\* executeTool, case "apply_patch": read, edit in memory, write back (lines 102-127)
applyPatch ==
    /\ patchResult = NoResult
    /\ disk # <<>>
    /\ original' = disk
    /\ LET r == ApplyEdits(disk, SortedEdits(edits)) IN
       /\ disk' = PatchedDisk(disk, r)
       /\ writes' = IF r.ok THEN writes + 1 ELSE writes
       /\ patchResult' = IF r.ok THEN Ok ELSE Err("RANGE_ERROR")
    /\ UNCHANGED <<extVars, runVars, toolVars, ledgerVars, edits>>

NextPatch ==
    \/ applyPatchNotFound
    \/ applyPatch

SpecPatch == InitPatch /\ [][NextPatch]_vars

(***************************************************************************)
(* Properties of apply_patch.                                              *)
(***************************************************************************)
\* every edit lies within the n lines of the file
InRange(es, n) ==
    \A k \in 1..Len(es) : 1 <= es[k].startLine /\ es[k].startLine <= es[k].endLine
                            /\ es[k].endLine <= n

\* no two edits of the list share a line
NonOverlapping(es) ==
    \A a, b \in 1..Len(es) :
       a # b => (es[a].endLine < es[b].startLine \/ es[b].endLine < es[a].startLine)

\* the lines from line k on, each edit's lines startLine..endLine replaced by its newText
RECURSIVE Replaced(_, _, _)
Replaced(lines, E, k) ==
    IF k > Len(lines) THEN <<>>
    ELSE IF \E e \in E : e.startLine = k
         THEN LET e == CHOOSE x \in E : x.startLine = k IN
              e.newText \o Replaced(lines, E, e.endLine + 1)
         ELSE <<lines[k]>> \o Replaced(lines, E, k + 1)

C20_PatchAllOrNothing ==
    patchResult # NoResult =>
       /\ ~patchResult.ok => (disk = original /\ writes = 0)
       /\ patchResult.ok =>
             /\ writes = 1
             /\ disk = ApplyEdits(original, SortedEdits(edits)).lines

C20_Witness ==
    /\ patchResult = Err("RANGE_ERROR")
    /\ Len(edits) = 2
    /\ ApplyEdits(original, SortedEdits(edits)).lines # original
    /\ disk = original /\ writes = 0

\* the edit ends before it starts, or after the last of the n lines
OutOfFile(e, n) == e.endLine < e.startLine \/ e.endLine > n

\* C37: apply_patch returns RANGE_ERROR whenever some edit of the list has endLine
\* below startLine or above the number of lines of the file as it was read, for
\* overlapping edits and edits whose newText has more lines than it replaces too.
C37_RangeErrorOnBadEdit ==
    (patchResult # NoResult /\ original # <<>>
       /\ \E k \in 1..Len(edits) : OutOfFile(edits[k], Len(original)))
          => patchResult = Err("RANGE_ERROR")

(***************************************************************************)
(* The journal under the appends of one process (memory.ts).              *)
(***************************************************************************)
MaxAppends == 1005

InitLedger ==
    /\ RunIdle /\ ToolIdle /\ PatchIdle /\ ExtIdle
    /\ entries = <<>>
    /\ appended = 0

\* addMemoryEntry called by a process on its own (lines 350-371)
appendEntry ==
    /\ appended < MaxAppends
    /\ entries' = addMemoryEntry(entries, Entry(appended + 1, "task", RunId))
    /\ appended' = appended + 1
    /\ UNCHANGED <<extVars, runVars, toolVars, patchVars>>

NextLedger == appendEntry

SpecLedger == InitLedger /\ [][NextLedger]_vars

(***************************************************************************)
(* Properties of the journal.                                              *)
(***************************************************************************)
\* C9: after any number of appends the journal holds at most CAP entries, and they
\* are the most recently appended ones in the order they were appended.
C9_LedgerEviction ==
    /\ Len(entries) <= 1000
    /\ Len(entries) = (IF appended <= 1000 THEN appended ELSE 1000)
    /\ \A k \in 1..Len(entries) : entries[k].id = appended - Len(entries) + k

C9_Witness ==
    /\ appended = 1005 /\ Len(entries) = 1000
    /\ entries[1].id = 6 /\ entries[1000].id = 1005

(***************************************************************************)
(* resumeUnfinishedGoals: one run per GoalRecord that is in_progress.  Of  *)
(* each run only what it does to memory.goals is kept: addGoal at its      *)
(* start and updateGoalStatus at its end.                                  *)
(***************************************************************************)
MaxGoals == 3

GoalIds == <<"goal0", "goal1", "goal2", "goal3">>
GoalStatuses == {"in_progress", "completed", "failed"}
GoalTables ==
    UNION {{[k \in 1..n |-> [id |-> GoalIds[k], status |-> st[k]]] :
               st \in [1..n -> GoalStatuses]} : n \in 0..MaxGoals}

\* generateId(): an id no GoalRecord has; the n-th one generated
NewIds == <<"run1", "run2", "run3", "run4">>
generateId(n) == NewIds[n]

\* getUnfinishedGoals: the ids of the records that are in_progress, in file order
RECURSIVE getUnfinishedGoals(_)
getUnfinishedGoals(gs) ==
    IF gs = <<>> THEN <<>>
    ELSE IF Head(gs).status = "in_progress"
         THEN <<Head(gs).id>> \o getUnfinishedGoals(Tail(gs))
         ELSE getUnfinishedGoals(Tail(gs))

\* the forcedId argument of the call of line 375: there is none
ResumeForcedId(goalId) == "undefined"

\* line 208: forcedId ?? generateId()
StateIdOf(forcedId, fresh) == IF forcedId = "undefined" THEN fresh ELSE forcedId

InitResume ==
    /\ ToolIdle /\ PatchIdle /\ LedgerIdle /\ GatewayIdle /\ SharedIdle /\ WorkerIdle
    /\ LaterIdle
    /\ pc = "off"
    /\ cfg = [maxSteps |-> 0, maxRetries |-> 0, autonomousMode |-> FALSE,
              reflectionEnabled |-> FALSE]
    /\ status = "idle"
    /\ tasks = <<>>
    /\ currentTask = 0
    /\ stepsExecuted = 0
    /\ i = 0
    /\ retries = 0
    /\ result = ""
    /\ resp = NoResp
    /\ reflection = NoReflection
    /\ caught = FALSE
    /\ lastEmit = NoSnapshot
    /\ goals \in GoalTables
    /\ goalsBefore = goals
    /\ resumePc = "call"
    /\ unfinished = <<>>
    /\ stateId = ""
    /\ resumed = <<>>

\* lines 370-371: read the unfinished goals once
resumeUnfinishedGoals ==
    /\ resumePc = "call"
    /\ unfinished' = getUnfinishedGoals(goals)
    /\ resumePc' = "loop"
    /\ UNCHANGED <<laterVars, toolVars, patchVars, ledgerVars, gatewayVars, sharedVars, workerVars,
                   pc, cfg, status, tasks, currentTask, stepsExecuted, i, retries, result, resp,
                   reflection, caught, lastEmit, goals, stateId, goalsBefore, resumed>>

\* line 375 and runAgent lines 207-229: the run for the next goal starts
resumeRunStarts ==
    /\ resumePc = "loop"
    /\ unfinished # <<>>
    /\ stateId' = StateIdOf(ResumeForcedId(Head(unfinished)), generateId(Len(resumed) + 1))
    /\ goals' = addGoal(goals, stateId')
    /\ resumePc' = "running"
    /\ UNCHANGED <<laterVars, toolVars, patchVars, ledgerVars, gatewayVars, sharedVars, workerVars,
                   pc, cfg, status, tasks, currentTask, stepsExecuted, i, retries, result, resp,
                   reflection, caught, lastEmit, unfinished, goalsBefore, resumed>>

\* runAgent lines 345-364 and line 376: the run ends completed, failed or paused
resumeRunEnds ==
    /\ resumePc = "running"
    /\ \E outcome \in {"completed", "failed", "paused"} :
          goals' = IF outcome = "paused" THEN goals
                   ELSE updateGoalStatus(goals, stateId, outcome)
    /\ resumed' = Append(resumed, [goal |-> Head(unfinished), run |-> stateId])
    /\ unfinished' = Tail(unfinished)
    /\ resumePc' = "loop"
    /\ UNCHANGED <<laterVars, toolVars, patchVars, ledgerVars, gatewayVars, sharedVars, workerVars,
                   pc, cfg, status, tasks, currentTask, stepsExecuted, i, retries, result, resp,
                   reflection, caught, lastEmit, stateId, goalsBefore>>

\* line 379
resumeReturns ==
    /\ resumePc = "loop"
    /\ unfinished = <<>>
    /\ resumePc' = "returned"
    /\ UNCHANGED <<laterVars, toolVars, patchVars, ledgerVars, gatewayVars, sharedVars, workerVars,
                   pc, cfg, status, tasks, currentTask, stepsExecuted, i, retries, result, resp,
                   reflection, caught, lastEmit, goals, unfinished, stateId, goalsBefore,
                   resumed>>

NextResume ==
    \/ resumeUnfinishedGoals
    \/ resumeRunStarts
    \/ resumeRunEnds
    \/ resumeReturns

SpecResume == InitResume /\ [][NextResume]_vars

\* C14: every run started by resumeUnfinishedGoals has the id of the GoalRecord it
\* resumes, every in_progress GoalRecord is resumed, and no GoalRecord is added.
C14_ResumeReusesId ==
    resumePc = "returned" =>
       /\ \A k \in 1..Len(resumed) : resumed[k].run = resumed[k].goal
       /\ \A k \in 1..Len(goalsBefore) :
             goalsBefore[k].status = "in_progress" =>
                \E j \in 1..Len(resumed) : resumed[j].goal = goalsBefore[k].id
       /\ Len(goals) = Len(goalsBefore)

\* every run resumeUnfinishedGoals started has ended completed or failed
ResumedRunsEnded ==
    \A k \in 1..Len(resumed) :
        /\ findGoal(goals, resumed[k].run) # 0
        /\ goals[findGoal(goals, resumed[k].run)].status \in {"completed", "failed"}

\* C36: when resumeUnfinishedGoals has returned and every run it started ended
\* completed or failed, getUnfinishedGoals returns no goal that was in_progress before
\* the call, so that a second call runs none of them again.
C36_ResumeDrains ==
    (resumePc = "returned" /\ ResumedRunsEnded) =>
        \A k \in 1..Len(goalsBefore) :
            goalsBefore[k].status = "in_progress" =>
                goalsBefore[k].id \notin Range(getUnfinishedGoals(goals))

(***************************************************************************)
(* The ledger file shared by worker processes.  A call of addMemoryEntry,  *)
(* addGoal or updateGoalStatus is loadMemory, a change of the loaded       *)
(* object and saveMemory; inside one process the three are one             *)
(* synchronous stretch, between processes nothing orders them.             *)
(***************************************************************************)
MaxCalls == 3

\* the calls a process can make; n is the number of the call, which stands for the
\* id generateId gives the entry
LedgerOps ==
    {[kind |-> "entry", id |-> "", status |-> "", n |-> 0]}
      \cup {[kind |-> "goal", id |-> g, status |-> "", n |-> 0] : g \in {"goal0", "goal1"}}
      \cup {[kind |-> "update", id |-> g, status |-> st, n |-> 0] :
                g \in {"goal0", "goal1"}, st \in {"completed", "failed"}}

\* loadMemory: the content of the file
loadMemory == [entries |-> entries, goals |-> goals]

\* the object a call hands to saveMemory, made from the object it loaded
Changed(mem, op) ==
    IF op.kind = "entry"
    THEN [mem EXCEPT !.entries = addMemoryEntry(mem.entries, Entry(op.n, "task", RunId))]
    ELSE IF op.kind = "goal"
    THEN [mem EXCEPT !.goals = addGoal(mem.goals, op.id)]
    ELSE [mem EXCEPT !.goals = updateGoalStatus(mem.goals, op.id, op.status)]

\* updateGoalStatus saves only when it found the goal (line 387)
Saves(mem, op) == op.kind = "update" => findGoal(mem.goals, op.id) # 0

InitShared ==
    /\ RunIdle /\ ToolIdle /\ PatchIdle /\ LedgerIdle
    /\ GatewayIdle /\ ResumeIdle /\ WorkerIdle /\ LaterIdle
    /\ SharedIdle

\* a process enters a ledger call and reads the file (lines 356, 374, 385)
procLoad(w) ==
    /\ procPc[w] = "idle"
    /\ appended < MaxCalls
    /\ \E op \in LedgerOps : procOp' = [procOp EXCEPT ![w] = [op EXCEPT !.n = appended + 1]]
    /\ procMem' = [procMem EXCEPT ![w] = loadMemory]
    /\ procPc' = [procPc EXCEPT ![w] = "loaded"]
    /\ appended' = appended + 1
    /\ UNCHANGED <<laterVars, runVars, toolVars, patchVars, gatewayVars, resumeVars, workerVars,
                   entries, completed>>

\* the process changes what it loaded and writes the file (lines 357-369, 375-381,
\* 386-393)
procSave(w) ==
    /\ procPc[w] = "loaded"
    /\ IF Saves(procMem[w], procOp[w])
       THEN /\ entries' = Changed(procMem[w], procOp[w]).entries
            /\ goals' = Changed(procMem[w], procOp[w]).goals
            /\ completed' = completed \cup {procOp[w]}
       ELSE UNCHANGED <<entries, goals, completed>>
    /\ procPc' = [procPc EXCEPT ![w] = "idle"]
    /\ procMem' = [procMem EXCEPT ![w] = NoMem]
    /\ procOp' = [procOp EXCEPT ![w] = NoOp]
    /\ UNCHANGED <<laterVars, toolVars, patchVars, gatewayVars, resumeVars, workerVars,
                   pc, cfg, status, tasks, currentTask, stepsExecuted, i, retries, result, resp,
                   reflection, caught, lastEmit, appended>>

NextShared ==
    \/ \E w \in Procs : procLoad(w)
    \/ \E w \in Procs : procSave(w)

SpecShared == InitShared /\ [][NextShared]_vars

\* the change a returned call made is in the file
Present(op) ==
    IF op.kind = "entry" THEN \E k \in 1..Len(entries) : entries[k].id = op.n
    ELSE IF op.kind = "goal" THEN findGoal(goals, op.id) # 0
    ELSE GoalStatus(op.id) \in {o.status : o \in {c \in completed : c.kind = "update" /\ c.id = op.id}}

\* C12: once every call has returned, whatever way the calls of the processes were
\* interleaved, each appended entry, each added goal and each status update is in
\* the ledger file.
C12_NoLostUpdate ==
    (\A w \in Procs : procPc[w] = "idle") => \A op \in completed : Present(op)

(***************************************************************************)
(* The Event Gateway: broadcastAgentUpdate and the stream route.  The      *)
(* n-th state broadcast for a run is written n.  Handlers run to           *)
(* completion one at a time (one event loop).                              *)
(***************************************************************************)
MaxSnapshots == 3

Event(r, n) == [run |-> r, n |-> n]

ReplayAll(r, cur) == [k \in 1..cur |-> Event(r, k)]

\* lines 52-55 of the route: one write of the stored state, if there is one
Replay(r, cur) == IF cur # 0 THEN <<Event(r, cur)>> ELSE <<>>

RECURSIVE DeliverUntilError(_, _, _)
DeliverUntilError(clients, ev, rcv) ==
    IF clients = <<>> \/ Head(clients) \in broken THEN rcv
    ELSE DeliverUntilError(Tail(clients), ev,
                           [rcv EXCEPT ![Head(clients)] = Append(@, ev)])

\* clients.forEach with the try/catch of lines 15-21: a write that throws is
\* logged and the next client is written
RECURSIVE Deliver(_, _, _)
Deliver(clients, ev, rcv) ==
    IF clients = <<>> THEN rcv
    ELSE Deliver(Tail(clients), ev,
                 IF Head(clients) \in broken THEN rcv
                 ELSE [rcv EXCEPT ![Head(clients)] = Append(@, ev)])

RemoveAllSinks(clients, s) == <<>>

\* line 58: filter((c) => c !== res)
RECURSIVE RemoveSink(_, _)
RemoveSink(clients, s) ==
    IF clients = <<>> THEN <<>>
    ELSE IF Head(clients) = s THEN RemoveSink(Tail(clients), s)
    ELSE <<Head(clients)>> \o RemoveSink(Tail(clients), s)

InitGateway ==
    /\ RunIdle /\ ToolIdle /\ PatchIdle /\ LedgerIdle
    /\ SharedIdle /\ ResumeIdle /\ WorkerIdle /\ LaterIdle
    /\ GatewayIdle

ClientsOfEveryRun(r) == agentClients["r1"] \o agentClients["r2"]

\* line 14: agentClients.get(agentId) || []
ClientsOf(r) == agentClients[r]

\* broadcastAgentUpdate(agentId, state), lines 13-23
broadcastAgentUpdate(r) ==
    /\ emitted["r1"] + emitted["r2"] < MaxSnapshots
    /\ received' = Deliver(ClientsOf(r), Event(r, emitted[r] + 1), received)
    /\ activeAgents' = [activeAgents EXCEPT ![r] = emitted[r] + 1]
    /\ emitted' = [emitted EXCEPT ![r] = @ + 1]
    /\ UNCHANGED <<laterVars, runVars, toolVars, patchVars, ledgerVars, sharedVars, resumeVars,
                   workerVars, agentClients, sinkRun, sinkOpen, broken, connectedAt>>

\* GET /agent/stream/:id, lines 41-55: register the response, replay the stored state
subscribe(s, r) ==
    /\ sinkRun[s] = "none"
    /\ agentClients' = [agentClients EXCEPT ![r] = Append(@, s)]
    /\ received' = [received EXCEPT ![s] = @ \o Replay(r, activeAgents[r])]
    /\ sinkRun' = [sinkRun EXCEPT ![s] = r]
    /\ sinkOpen' = [sinkOpen EXCEPT ![s] = TRUE]
    /\ connectedAt' = [connectedAt EXCEPT ![s] = emitted[r]]
    /\ UNCHANGED <<laterVars, runVars, toolVars, patchVars, ledgerVars, sharedVars, resumeVars,
                   workerVars, activeAgents, broken, emitted>>

\* the close handler of the request, lines 57-60
closeSink(s) ==
    /\ sinkOpen[s]
    /\ agentClients' = [agentClients EXCEPT ![sinkRun[s]] = RemoveSink(@, s)]
    /\ sinkOpen' = [sinkOpen EXCEPT ![s] = FALSE]
    /\ UNCHANGED <<laterVars, runVars, toolVars, patchVars, ledgerVars, sharedVars, resumeVars,
                   workerVars, activeAgents, received, sinkRun, broken, emitted, connectedAt>>

\* the response of a subscriber starts to throw on write (line 17), before any close
\* event of its request is handled
sinkBreaks(s) ==
    /\ sinkOpen[s]
    /\ s \notin broken
    /\ broken' = broken \cup {s}
    /\ UNCHANGED <<laterVars, runVars, toolVars, patchVars, ledgerVars, sharedVars, resumeVars,
                   workerVars, agentClients, activeAgents, received, sinkRun, sinkOpen,
                   emitted, connectedAt>>

NextGateway ==
    \/ \E r \in Runs : broadcastAgentUpdate(r)
    \/ \E s \in Sinks, r \in Runs : subscribe(s, r)
    \/ \E s \in Sinks : closeSink(s)
    \/ \E s \in Sinks : sinkBreaks(s)

SpecGateway == InitGateway /\ [][NextGateway]_vars

\* the events of snapshots a+1 .. b of run r
Snapshots(r, a, b) == [k \in 1..(b - a) |-> Event(r, a + k)]

\* position of sink s in a client list (0: absent)
PosOf(clients, s) ==
    IF \E k \in 1..Len(clients) : clients[k] = s
    THEN CHOOSE k \in 1..Len(clients) : clients[k] = s
    ELSE 0

C13_ForwardingOrder ==
    \A s \in Sinks :
       (sinkOpen[s] /\ s \notin broken) =>
          received[s] = Replay(sinkRun[s], connectedAt[s])
                          \o Snapshots(sinkRun[s], connectedAt[s], emitted[sinkRun[s]])

C13_Witness ==
    \E s \in Sinks, b \in broken :
       /\ sinkOpen[s] /\ s \notin broken /\ sinkOpen[b]
       /\ sinkRun[s] = sinkRun[b]
       /\ PosOf(agentClients[sinkRun[s]], b) # 0
       /\ PosOf(agentClients[sinkRun[s]], b) < PosOf(agentClients[sinkRun[s]], s)
       /\ connectedAt[s] + 2 <= emitted[sinkRun[s]]
       /\ \A k \in 1..Len(received[b]) : received[b][k].n < emitted[sinkRun[s]]
       /\ received[s][Len(received[s])] = Event(sinkRun[s], emitted[sinkRun[s]])

\* C17: a disconnect removes that sink from its run's list and leaves every list
\* otherwise as it was; a disconnected sink is written nothing more; a broadcast
\* still writes every sink that is registered and whose write does not throw.
C17_Disconnect ==
    [][/\ \A s \in Sinks :
             (sinkOpen[s] /\ ~sinkOpen'[s]) =>
                /\ PosOf(agentClients'[sinkRun[s]], s) = 0
                /\ \A r \in Runs : \A t \in Sinks \ {s} :
                      /\ (PosOf(agentClients[r], t) # 0) = (PosOf(agentClients'[r], t) # 0)
                      /\ \A u \in Sinks \ {s} :
                            (PosOf(agentClients[r], t) < PosOf(agentClients[r], u))
                               = (PosOf(agentClients'[r], t) < PosOf(agentClients'[r], u))
       /\ \A s \in Sinks :
             (~sinkOpen[s] /\ sinkRun[s] # "none" /\ ~sinkOpen'[s]) => received'[s] = received[s]
       /\ \A r \in Runs :
             emitted'[r] = emitted[r] + 1 =>
                \A s \in Sinks :
                   (sinkOpen[s] /\ sinkRun[s] = r /\ s \notin broken) =>
                      received'[s] = Append(received[s], Event(r, emitted'[r]))]_vars

C17_Witness ==
    \E s, t, u \in Sinks :
       /\ sinkRun[s] = "r1" /\ ~sinkOpen[s] /\ received[s] = <<Event("r1", 1)>>
       /\ sinkRun[t] = "r1" /\ sinkOpen[t] /\ received[t] = <<Event("r1", 1), Event("r1", 2)>>
       /\ sinkRun[u] = "r2" /\ sinkOpen[u] /\ PosOf(agentClients["r2"], u) # 0

\* a broadcast for run a writes to sinks registered for a only, events of a only, and
\* leaves the stored snapshot and the sinks of the other runs as they were
BroadcastStaysInRun(a) ==
    emitted'[a] = emitted[a] + 1 =>
        /\ \A s \in Sinks :
              received'[s] # received[s] =>
                 /\ sinkRun[s] = a /\ PosOf(agentClients[a], s) # 0
                 /\ received'[s] = Append(received[s], Event(a, emitted'[a]))
        /\ activeAgents'[a] = emitted'[a]
        /\ \A b \in Runs \ {a} :
              activeAgents'[b] = activeAgents[b] /\ agentClients'[b] = agentClients[b]

\* a subscription to run a or the close of a sink of run a leaves the stored snapshot,
\* the sinks and what the sinks of the other runs were written as they were
StreamStaysInRun(a) ==
    agentClients'[a] # agentClients[a] =>
        /\ \A b \in Runs \ {a} :
              activeAgents'[b] = activeAgents[b] /\ agentClients'[b] = agentClients[b]
        /\ \A s \in Sinks : sinkRun'[s] # a => received'[s] = received[s]
        /\ \A s \in Sinks : received'[s] # received[s] =>
              \A k \in 1..Len(received'[s]) : received'[s][k].run = a

\* C38: a broadcast for run A is delivered only to sinks subscribed to A and changes
\* the stored latest snapshot of A only; the subscribers and the stored snapshot of
\* another run B are unchanged, however broadcasts and subscriptions of the two runs
\* are interleaved.
C38_RunIsolation ==
    [][\A a \in Runs : BroadcastStaysInRun(a) /\ StreamStaysInRun(a)]_vars

C38_Witness ==
    \E s, t \in Sinks :
       /\ sinkRun[s] = "r1" /\ sinkOpen[s] /\ connectedAt[s] = 0
       /\ sinkRun[t] = "r2" /\ sinkOpen[t] /\ connectedAt[t] = 0
       /\ received[s] = <<Event("r1", 1)>>
       /\ received[t] = <<Event("r2", 1)>>
       /\ activeAgents["r1"] = 1 /\ activeAgents["r2"] = 1

(***************************************************************************)
(* The worker: the processing function of one job, the onUpdate callbacks  *)
(* it hands to runAgent without awaiting them, and the failed handler.     *)
(* redisLog is the sequence of commands issued.  A set can be rejected by  *)
(* the store; replies of one connection come in the order of its commands. *)
(* Of runAgent only its calls of the callback and its return are kept.     *)
(***************************************************************************)
MaxEmits == 3

redisKeyAgentState(agentId) == <<"agent", agentId, "state">>
redisChannelAgentEvents(agentId) == <<"agent", agentId, "events">>

\* The content of the Run object.  runAgent changes the object before each call of
\* the callback (lines 227, 235, 256-261, 271, 281, 285), so the content is written as
\* the number of calls made so far; 0 stands for no state.
StateNow == Len(callbacks)

\* connection.set(redisKeyAgentState(agentId), JSON.stringify(state), "EX", 3600); cb
\* is the number of the callback that issued it, 0 for the processing function; state
\* is the content serialized, which for callback cb is the object at its call
SetCmd(agentId, cb) ==
    [op |-> "set", at |-> redisKeyAgentState(agentId), type |-> "state", level |-> "",
     cb |-> cb, arg |-> "EX3600", state |-> IF cb = 0 THEN StateNow ELSE cb]

\* publish(redisPub, agentId, event), lines 13-18; arg is the message of a log
\* event and the status of a done event
PublishCmd(agentId, type, level, cb, arg) ==
    [op |-> "publish", at |-> redisChannelAgentEvents(agentId), type |-> type,
     level |-> level, cb |-> cb, arg |-> arg, state |-> 0]

OnUpdateFirstPublish(agentId, k) == PublishCmd(agentId, "state", "", k, "")

\* the command onUpdate issues when it is called (lines 37-42)
OnUpdateFirst(agentId, k) == SetCmd(agentId, k)

\* the command onUpdate issues once its set has resolved (line 43): publish
\* serializes the event, and with it the Run object, when it is called (line 17)
OnUpdateSecond(agentId, k) ==
    [PublishCmd(agentId, "state", "", k, "") EXCEPT !.state = StateNow]

\* line 63: the status of the done event
DoneStatus(st) == IF st = "completed" THEN "completed" ELSE "failed"

FailedHandlerLogOnly(agentId, msg) == <<PublishCmd(agentId, "log", "error", 0, msg)>>

\* the two events of worker.on("failed"), lines 74-84
FailedHandler(agentId, msg) ==
    <<PublishCmd(agentId, "log", "error", 0, msg), PublishCmd(agentId, "done", "", 0, "failed")>>

\* every set issued before callback k's has been answered
EarlierSetsSettled(k) == \A j \in 1..(k - 1) : callbacks[j] # "set"

InitWorker ==
    /\ RunIdle /\ ToolIdle /\ PatchIdle /\ LedgerIdle
    /\ GatewayIdle /\ SharedIdle /\ ResumeIdle /\ LaterIdle
    /\ job \in [agentId : Runs, status : {"none"}]
    /\ jobPc = "taken"
    /\ callbacks = <<>>
    /\ redisLog = <<>>
    /\ jobError = ""

\* lines 27-34: the "Job started" log event
jobStarts ==
    /\ jobPc = "taken"
    /\ redisLog' = Append(redisLog, PublishCmd(job.agentId, "log", "info", 0, "Job started"))
    /\ jobPc' = "running"
    /\ UNCHANGED <<laterVars, runVars, toolVars, patchVars, ledgerVars, gatewayVars, sharedVars,
                   resumeVars, job, callbacks, jobError>>

\* runAgent calls (s) => void onUpdate(s) (line 49): onUpdate runs up to its first
\* await, which issues the set
runEmits ==
    /\ jobPc = "running"
    /\ Len(callbacks) < MaxEmits
    /\ redisLog' = Append(redisLog, OnUpdateFirst(job.agentId, Len(callbacks) + 1))
    /\ callbacks' = Append(callbacks, "set")
    /\ UNCHANGED <<laterVars, runVars, toolVars, patchVars, ledgerVars, gatewayVars, sharedVars,
                   resumeVars, job, jobPc, jobError>>

\* line 43: the set of callback k resolved, the state event is published
callbackPublishes(k) ==
    /\ k \in 1..Len(callbacks)
    /\ callbacks[k] = "set"
    /\ EarlierSetsSettled(k)
    /\ redisLog' = Append(redisLog, OnUpdateSecond(job.agentId, k))
    /\ callbacks' = [callbacks EXCEPT ![k] = "published"]
    /\ UNCHANGED <<laterVars, runVars, toolVars, patchVars, ledgerVars, gatewayVars, sharedVars,
                   resumeVars, job, jobPc, jobError>>

\* line 37: the set of callback k was rejected; onUpdate ends there and nobody
\* awaits it
callbackRejected(k) ==
    /\ k \in 1..Len(callbacks)
    /\ callbacks[k] = "set"
    /\ EarlierSetsSettled(k)
    /\ callbacks' = [callbacks EXCEPT ![k] = "rejected"]
    /\ UNCHANGED <<laterVars, runVars, toolVars, patchVars, ledgerVars, gatewayVars, sharedVars,
                   resumeVars, job, jobPc, redisLog, jobError>>

\* lines 46-58: runAgent returns its state (its last act is an emit), the final set
\* is issued
runReturns ==
    /\ jobPc = "running"
    /\ Len(callbacks) >= 1
    /\ \E st \in {"completed", "failed", "paused"} : job' = [job EXCEPT !.status = st]
    /\ redisLog' = Append(redisLog, SetCmd(job.agentId, 0))
    /\ jobPc' = "finalSet"
    /\ UNCHANGED <<laterVars, runVars, toolVars, patchVars, ledgerVars, gatewayVars, sharedVars,
                   resumeVars, callbacks, jobError>>

\* lines 60-66: the final set resolved; the done event, and the job completes
jobCompletes ==
    /\ jobPc = "finalSet"
    /\ EarlierSetsSettled(Len(callbacks) + 1)
    /\ redisLog' = Append(redisLog, PublishCmd(job.agentId, "done", "", 0, DoneStatus(job.status)))
    /\ jobPc' = "completed"
    /\ UNCHANGED <<laterVars, runVars, toolVars, patchVars, ledgerVars, gatewayVars, sharedVars,
                   resumeVars, job, callbacks, jobError>>

\* line 53: the final set was rejected; the processing function fails with that error
jobFails ==
    /\ jobPc = "finalSet"
    /\ EarlierSetsSettled(Len(callbacks) + 1)
    /\ jobError' = "set rejected"
    /\ jobPc' = "failed"
    /\ UNCHANGED <<laterVars, runVars, toolVars, patchVars, ledgerVars, gatewayVars, sharedVars,
                   resumeVars, job, callbacks, redisLog>>

\* worker.on("failed"), lines 71-79: the error log event
onFailedLog ==
    /\ jobPc = "failed"
    /\ redisLog' = Append(redisLog, FailedHandler(job.agentId, jobError)[1])
    /\ jobPc' = "failedLog"
    /\ UNCHANGED <<laterVars, runVars, toolVars, patchVars, ledgerVars, gatewayVars, sharedVars,
                   resumeVars, job, callbacks, jobError>>

\* worker.on("failed"), lines 80-84: the done event
onFailedDone ==
    /\ jobPc = "failedLog"
    /\ redisLog' = IF Len(FailedHandler(job.agentId, jobError)) >= 2
                   THEN Append(redisLog, FailedHandler(job.agentId, jobError)[2])
                   ELSE redisLog
    /\ jobPc' = "failedHandled"
    /\ UNCHANGED <<laterVars, runVars, toolVars, patchVars, ledgerVars, gatewayVars, sharedVars,
                   resumeVars, job, callbacks, jobError>>

NextWorker ==
    \/ jobStarts
    \/ runEmits
    \/ \E k \in 1..MaxEmits : callbackPublishes(k)
    \/ \E k \in 1..MaxEmits : callbackRejected(k)
    \/ runReturns
    \/ jobCompletes
    \/ jobFails
    \/ onFailedLog
    \/ onFailedDone

SpecWorker == InitWorker /\ [][NextWorker]_vars

\* the handlers the event loop has ready are run
SpecWorkerLive == SpecWorker /\ WF_vars(onFailedLog) /\ WF_vars(onFailedDone)

\* positions of the commands of callback k in the log
SetsOf(k) == {p \in 1..Len(redisLog) : redisLog[p].op = "set" /\ redisLog[p].cb = k}
StatePublishesOf(k) ==
    {p \in 1..Len(redisLog) : redisLog[p].op = "publish" /\ redisLog[p].type = "state"
                                 /\ redisLog[p].cb = k}

\* C18: every callback issued one set under its run's key; a callback whose set
\* resolved issued, after the set, one state event on its run's topic; no state event
\* is published by a callback that has not persisted.
C18_PersistThenPublish ==
    /\ \A k \in 1..Len(callbacks) :
          /\ Cardinality(SetsOf(k)) = 1
          /\ \A p \in SetsOf(k) : redisLog[p].at = redisKeyAgentState(job.agentId)
          /\ callbacks[k] = "published" =>
                /\ Cardinality(StatePublishesOf(k)) = 1
                /\ \A q \in StatePublishesOf(k) :
                      /\ redisLog[q].at = redisChannelAgentEvents(job.agentId)
                      /\ \A p \in SetsOf(k) : p < q
          /\ callbacks[k] # "published" => StatePublishesOf(k) = {}
    /\ \A q \in 1..Len(redisLog) :
          (redisLog[q].op = "publish" /\ redisLog[q].type = "state") =>
             /\ redisLog[q].cb \in 1..Len(callbacks)
             /\ \E p \in 1..(q - 1) : redisLog[p].op = "set" /\ redisLog[p].cb = redisLog[q].cb

C18_Witness ==
    /\ Len(callbacks) = 3
    /\ callbacks[1] = "published" /\ callbacks[2] = "published" /\ callbacks[3] = "set"
    /\ \E p \in SetsOf(2) : \E q \in StatePublishesOf(1) : p < q

\* the failed handler's events are in the log
FailedEventsPublished ==
    /\ \E p, q \in 1..Len(redisLog) :
          /\ p < q
          /\ redisLog[p] = PublishCmd(job.agentId, "log", "error", 0, jobError)
          /\ redisLog[q] = PublishCmd(job.agentId, "done", "", 0, "failed")

\* C19: once the processing function of a job has failed, the error log event with
\* the error's message and the done event with status failed get published on the
\* run's topic.
C19_FailureEvents == (jobPc = "failed") ~> FailedEventsPublished

C19_Witness == jobPc = "failedHandled" /\ jobError # "" /\ FailedEventsPublished

\* C34: the done event of a job whose processing function returned carries the status
\* of the Run that runAgent returned: completed, failed or paused.
C34_DoneCarriesRunStatus ==
    jobPc = "completed" =>
        \A p \in 1..Len(redisLog) :
            (redisLog[p].op = "publish" /\ redisLog[p].type = "done")
                => redisLog[p].arg = job.status

\* C35: the snapshot in the state event of a callback is the snapshot that callback
\* persisted, which is the Run object as it was when the callback was called.
C35_PublishedIsPersisted ==
    \A k \in 1..Len(callbacks) :
        \A q \in StatePublishesOf(k) :
            /\ redisLog[q].state = k
            /\ \A p \in SetsOf(k) : redisLog[q].state = redisLog[p].state

(***************************************************************************)
(* getRecentMemory (memory.ts): the journal is any journal of at most      *)
(* MaxJournal entries, numbered in append order, each of one of two goals; *)
(* the call is given a limit and a goalId or none.                         *)
(***************************************************************************)
MaxJournal == 4

\* the journals of n entries, the k-th appended having id k
JournalsOf(n) == {[k \in 1..n |-> Entry(k, "task", g[k])] : g \in [1..n -> {RunId, OtherId}]}
Journals == UNION {JournalsOf(n) : n \in 0..MaxJournal}

Limits == 0..(MaxJournal + 1)
GoalArgs == {NoGoalId, RunId, OtherId}

\* entries.filter(e => e.goalId === goalId), line 405
FilterByGoal(es, goalId) ==
    LET Match(e) == e.goalId = goalId IN SelectSeq(es, Match)

\* getRecentMemory, lines 401-408
getRecentMemory(es, limit, goalId) ==
    SliceLast(IF goalId # NoGoalId THEN FilterByGoal(es, goalId) ELSE es, limit)

InitRecent ==
    /\ RunIdle /\ ToolIdle /\ PatchIdle /\ ServiceIdle
    /\ LlmIdle /\ WatchdogIdle /\ ExecIdle /\ LastIdle
    /\ entries \in Journals
    /\ appended = Len(entries)
    /\ recentPc = "call"
    /\ recentArgs \in [limit : Limits, goalId : GoalArgs]
    /\ recentOut = <<>>

\* the call returns
recentReturns ==
    /\ recentPc = "call"
    /\ recentOut' = getRecentMemory(entries, recentArgs.limit, recentArgs.goalId)
    /\ recentPc' = "done"
    /\ UNCHANGED <<runVars, toolVars, patchVars, ledgerVars, serviceVars, llmVars,
                   watchdogVars, execVars, lastVars, recentArgs>>

NextRecent == recentReturns

SpecRecent == InitRecent /\ [][NextRecent]_vars

\* the entries the call is about: all of them, or those of the given goal
Selected == {k \in 1..Len(entries) :
               recentArgs.goalId = NoGoalId \/ entries[k].goalId = recentArgs.goalId}

\* C30: for every journal and every limit >= 0, 0 included, getRecentMemory returns
\* at most limit entries: the last limit entries of the journal (of those of the
\* given goal when one is given), in the order they were appended.
C30_RecentMemory ==
    recentPc = "done" =>
       LET n == IF Cardinality(Selected) <= recentArgs.limit
                THEN Cardinality(Selected) ELSE recentArgs.limit
       IN /\ Len(recentOut) <= recentArgs.limit
          /\ Len(recentOut) = n
          /\ \A k \in 1..n :
                /\ recentOut[k].id \in {entries[j].id : j \in Selected}
                /\ Cardinality({j \in Selected : entries[j].id > recentOut[k].id}) = n - k

(***************************************************************************)
(* callLLM (engine.ts), the gateway call of the Planner, the Executor and  *)
(* the Reflector.  The provider either rejects the request (network error, *)
(* HTTP error status, timeout: openai.chat.completions.create throws) or   *)
(* answers with a completion whose first choice may be missing, may have   *)
(* no content, or has a text (a response as the Reflector reads it).       *)
(***************************************************************************)
Callers == {"planTasks", "executeTaskWithTools", "reflectOnTask"}
Rejections == {"network", "status", "timeout"}

ProviderOutcomes ==
    [kind : Rejections, content : {"undefined"}]
       \cup [kind : {"nochoice", "nocontent"}, content : {"undefined"}]
       \cup [kind : {"text"}, content : Responses]

\* res.choices[0]?.message?.content || "" (line 63); the empty text is falsy
ContentOrEmpty(p) == IF p.kind = "text" /\ p.content # <<>> THEN p.content ELSE <<>>

\* callLLM, lines 49-64: the await of line 56 is not inside a try
callLLM(p) ==
    IF p.kind \in Rejections THEN [pc |-> "thrown", value |-> <<>>]
    ELSE [pc |-> "returned", value |-> ContentOrEmpty(p)]

InitLlm ==
    /\ RunIdle /\ ToolIdle /\ PatchIdle /\ LedgerIdle /\ ServiceIdle
    /\ RecentIdle /\ WatchdogIdle /\ ExecIdle /\ LastIdle
    /\ llmPc \in Callers
    /\ provider \in ProviderOutcomes
    /\ llmOut = <<>>

\* the call made by one of the three callers completes
callCompletes ==
    /\ llmPc \in Callers
    /\ llmPc' = callLLM(provider).pc
    /\ llmOut' = callLLM(provider).value
    /\ UNCHANGED <<runVars, toolVars, patchVars, ledgerVars, serviceVars, recentVars,
                   watchdogVars, execVars, lastVars, provider>>

NextLlm == callCompletes

SpecLlm == InitLlm /\ [][NextLlm]_vars

\* C22: whatever the provider does, the gateway call does not throw to its caller:
\* it returns a string, the empty string when the provider call failed.
C22_GatewayNeverThrows ==
    /\ llmPc # "thrown"
    /\ llmPc = "returned" => llmOut \in Responses
    /\ (llmPc = "returned" /\ provider.kind \in Rejections) => llmOut = <<>>

(***************************************************************************)
(* The watchdog of run_command (runCommandSandbox, lines 277-312): the     *)
(* promise, the timeout timer and the handlers of the child's events.      *)
(* Handlers run one at a time on the event loop, so each is one step.  A   *)
(* child whose spawn failed emits error (before any timer can fire) and    *)
(* then close; a running child emits data and close, and error only when a *)
(* kill of it failed.  Output is counted in chunks.                        *)
(***************************************************************************)
MaxChunks == 3

\* the exit code of the close event: of a child that ended by itself, of a child
\* ended by a signal, and of a child that was never spawned
ExitCodes == {"0", "1"}
SignalCode == "null"
SpawnFailCode == "-2"

\* resolve({ok: false, error: {code}}), lines 289 and 310
Failure(code) == [ok |-> FALSE, code |-> code, exit |-> "none", stdout |-> 0, stderr |-> 0]

\* resolve({ok: true, data: {code, stdout, stderr}}), lines 297-305
Closed(exit, out, err) ==
    [ok |-> TRUE, code |-> "ok", exit |-> exit, stdout |-> out, stderr |-> err]

\* resolve(r) of a promise: the first call settles it, later calls do nothing
Settle(p, r) == IF p = Pending THEN r ELSE p

ClearTimeoutNoop(t) == t

\* clearTimeout(timer), lines 296 and 309: a timer that did not fire never will
ClearTimeout(t) == IF t = "armed" THEN "cleared" ELSE t

\* the state when the executor of the promise has run (lines 277-311): the child
\* spawned or its spawn failed, the timer armed, the handlers attached
InitWatchdog ==
    /\ RunIdle /\ ToolIdle /\ PatchIdle /\ LedgerIdle /\ ServiceIdle
    /\ RecentIdle /\ LlmIdle /\ ExecIdle /\ LastIdle
    /\ timer = "armed"
    /\ child \in [state : {"running", "failed"}, killed : {FALSE}, error : {FALSE},
                   closed : {FALSE}]
    /\ promise = Pending
    /\ resolveCalls = 0
    /\ stdoutChunks = 0
    /\ stderrChunks = 0

\* lines 287-290: the timer fires; kill the child, resolve with TIMEOUT
timerFires ==
    /\ timer = "armed" /\ child.state = "running"
    /\ timer' = "fired"
    /\ child' = [child EXCEPT !.killed = TRUE]
    /\ promise' = Settle(promise, Failure("TIMEOUT"))
    /\ resolveCalls' = resolveCalls + 1
    /\ UNCHANGED <<runVars, toolVars, patchVars, ledgerVars, serviceVars, recentVars,
                   llmVars, execVars, lastVars, stdoutChunks, stderrChunks>>

\* line 292: a chunk arrives on the child's stdout
stdoutData ==
    /\ child.state = "running" /\ ~child.closed
    /\ stdoutChunks < MaxChunks
    /\ stdoutChunks' = stdoutChunks + 1
    /\ UNCHANGED <<runVars, toolVars, patchVars, ledgerVars, serviceVars, recentVars,
                   llmVars, execVars, lastVars, timer, child, promise, resolveCalls, stderrChunks>>

\* line 293: a chunk arrives on the child's stderr
stderrData ==
    /\ child.state = "running" /\ ~child.closed
    /\ stderrChunks < MaxChunks
    /\ stderrChunks' = stderrChunks + 1
    /\ UNCHANGED <<runVars, toolVars, patchVars, ledgerVars, serviceVars, recentVars,
                   llmVars, execVars, lastVars, timer, child, promise, resolveCalls, stdoutChunks>>

\* lines 295-306, the handler of the child's close event
onClose(exit) ==
    /\ child' = [child EXCEPT !.closed = TRUE, !.state = exit]
    /\ timer' = ClearTimeout(timer)
    /\ promise' = Settle(promise, Closed(exit, stdoutChunks, stderrChunks))
    /\ resolveCalls' = resolveCalls + 1
    /\ UNCHANGED <<runVars, toolVars, patchVars, ledgerVars, serviceVars, recentVars,
                   llmVars, execVars, lastVars, stdoutChunks, stderrChunks>>

\* the close event of a child that ran: it ended by itself, or by the signal of a kill
childClose ==
    /\ child.state = "running" /\ ~child.closed
    /\ \E exit \in ExitCodes \cup (IF child.killed THEN {SignalCode} ELSE {}) :
          onClose(exit)

\* the close event that follows the error event of a failed spawn
spawnClose ==
    /\ child.state = "failed" /\ child.error /\ ~child.closed
    /\ onClose(SpawnFailCode)

\* lines 308-311, the handler of the child's error event
onChildError ==
    /\ child' = [child EXCEPT !.error = TRUE]
    /\ timer' = ClearTimeout(timer)
    /\ promise' = Settle(promise, Failure("SPAWN_ERROR"))
    /\ resolveCalls' = resolveCalls + 1
    /\ UNCHANGED <<runVars, toolVars, patchVars, ledgerVars, serviceVars, recentVars,
                   llmVars, execVars, lastVars, stdoutChunks, stderrChunks>>

\* the error event of a child that could not be spawned
spawnError ==
    /\ child.state = "failed" /\ ~child.error
    /\ onChildError

\* the error event of a child that could not be killed
killError ==
    /\ child.state = "running" /\ child.killed /\ ~child.error /\ ~child.closed
    /\ onChildError

NextWatchdog ==
    \/ timerFires
    \/ stdoutData
    \/ stderrData
    \/ childClose
    \/ spawnClose
    \/ spawnError
    \/ killError

SpecWatchdog == InitWatchdog /\ [][NextWatchdog]_vars

\* the event loop runs a timer that is due and delivers the error of a failed spawn
SpecWatchdogLive == SpecWatchdog /\ WF_vars(timerFires) /\ WF_vars(spawnError)

\* C29: whatever the order of the timer, the close event and the error event, the
\* promise of run_command is settled, and settled once; when the timer fires before
\* the child closes the child is killed and the result is TIMEOUT, also after the
\* close event that follows; when the child closes first the timer is cancelled for
\* good and the result is not TIMEOUT.
C29_CommandWatchdog ==
    /\ <>(promise # Pending)
    /\ [][promise # Pending => promise' = promise]_vars
    /\ [](timer = "fired" => (child.killed /\ promise = Failure("TIMEOUT")))
    /\ []((child.closed /\ timer # "fired") =>
            (timer = "cleared" /\ promise.code \in {"ok", "SPAWN_ERROR"}))
    /\ [][timer = "cleared" => timer' = "cleared"]_vars

C29_Witness ==
    /\ timer = "fired" /\ child.killed /\ child.closed
    /\ resolveCalls = 2 /\ promise = Failure("TIMEOUT")

(***************************************************************************)
(* The Executor with its tool call (executeTaskWithTools, and executeTool  *)
(* and the tools of the registry the engine imports, tools.ts), inside the *)
(* retry loop of a run whose plan is one task.  A model response is plain  *)
(* text, or asks for a tool with parameters that parse or do not; fault is *)
(* what goes wrong inside the tool.                                        *)
(***************************************************************************)
Registered == {"read_file", "write_file", "list_files", "fetch_url"}
ToolNames == Registered \cup {"unknown_tool"}

\* what can go wrong in each tool: the path resolves outside the workspace, the file
\* or directory does not exist, a filesystem or network call throws, the server
\* answers with an error status
ToolFaults(t) ==
    CASE t = "read_file" -> {"none", "outside", "missing", "ioerror"}
      [] t = "write_file" -> {"none", "outside", "ioerror"}
      [] t = "list_files" -> {"none", "outside", "missing", "ioerror"}
      [] t = "fetch_url" -> {"none", "ioerror", "http"}
      [] OTHER -> {"none"}

ExecResponses ==
    {[kind |-> "text", tool |-> "none", fault |-> "none"]}
       \cup [kind : {"badparams"}, tool : ToolNames, fault : {"none"}]
       \cup UNION {[kind : {"tool"}, tool : {t}, fault : ToolFaults(t)] : t \in ToolNames}

Success == [success |-> TRUE, error |-> "none", thrown |-> FALSE]
Fail(error) == [success |-> FALSE, error |-> error, thrown |-> FALSE]
Thrown == [success |-> FALSE, error |-> "none", thrown |-> TRUE]

ExecuteToolRethrowing(t, fault) ==
    IF t \notin Registered THEN Fail("Unknown tool")
    ELSE CASE fault = "none" -> Success
           [] fault = "outside" -> Fail("Access denied: Path outside workspace")
           [] fault = "missing" -> Fail("not found")
           [] fault = "ioerror" -> Thrown
           [] fault = "http" -> Fail("HTTP status")

\* executeTool (tools.ts, lines 199-205) and the execute of the tool it finds: every
\* failure, a caught exception included, is returned as {success: false, error}
executeTool(t, fault) ==
    IF t \notin Registered THEN Fail("Unknown tool")
    ELSE CASE fault = "none" -> Success
           [] fault = "outside" -> Fail("Access denied: Path outside workspace")
           [] fault = "missing" -> Fail("not found")
           [] fault = "ioerror" -> Fail("error.message")
           [] fault = "http" -> Fail("HTTP status")

\* the string executeTaskWithTools returns (lines 127, 140-142, 145)
ExecutorResult(r, out) ==
    CASE r.kind = "text" -> "output"
      [] r.kind = "badparams" -> "Error parsing tool parameters"
      [] r.kind = "tool" /\ out.success -> "Tool succeeded"
      [] r.kind = "tool" /\ ~out.success -> "Tool failed"

\* the state of a run with a plan of one task when that task has been started
InitExecutor ==
    /\ ToolIdle /\ PatchIdle /\ ServiceIdle
    /\ RecentIdle /\ LlmIdle /\ WatchdogIdle /\ ExecIdle /\ LastIdle
    /\ pc = "while"
    /\ cfg \in {c \in Configs : c.maxSteps >= 1}
    /\ status = "executing"
    /\ tasks = <<[status |-> "running", result |-> "none", execs |-> 0]>>
    /\ currentTask = 1
    /\ stepsExecuted = 0
    /\ i = 1
    /\ retries = 0
    /\ result = ""
    /\ resp = NoResp
    /\ reflection = NoReflection
    /\ caught = FALSE
    /\ goals = <<[id |-> OtherId, status |-> "in_progress"],
                 [id |-> RunId, status |-> "in_progress"]>>
    /\ entries = <<Entry(1, "goal", RunId), Entry(2, "decision", RunId)>>
    /\ appended = 2
    /\ lastEmit = Snapshot("executing", tasks, 0, 1)

\* executeTaskWithTools (lines 117-145) and what the loop does with its outcome: the
\* model answers r; a tool it asks for is executed and journalled (lines 130-138);
\* an exception of executeTool would leave through line 131 to the catch of the loop.
executeTaskWithTools ==
    /\ \E r \in ExecResponses :
          LET out == IF r.kind = "tool" THEN executeTool(r.tool, r.fault) ELSE NoOutput
          IN /\ response' = r
             /\ toolOutput' = out
             /\ IF out.thrown
                THEN executorThrew
                ELSE /\ executorReturned(ExecutorResult(r, out))
                     /\ IF r.kind = "tool" THEN Journal("result")
                        ELSE UNCHANGED ledgerVars
    /\ UNCHANGED <<serviceVars, recentVars, llmVars, watchdogVars, lastVars>>

\* the gateway call of line 117 throws
executorGatewayThrows ==
    /\ executorThrew
    /\ response' = NoResponse
    /\ toolOutput' = NoOutput
    /\ UNCHANGED <<serviceVars, recentVars, llmVars, watchdogVars, lastVars>>

NextExecutor ==
    \/ whileEnter
    \/ whileExit
    \/ executeTaskWithTools
    \/ executorGatewayThrows
    \/ reflectorReturns
    \/ reflectorThrows
    \/ decide
    \/ catchTask
    \/ taskEnd
    \/ loopExit
    \/ postLoop
    \/ returnState

SpecExecutor == InitExecutor /\ [][NextExecutor]_vars

\* the tool call the response asks for fails
ToolFails(r) == r.kind = "tool" /\ (r.tool \notin Registered \/ r.fault # "none")

\* C21: an Executor invocation whose tool call fails (path outside the workspace,
\* missing file, unknown tool, I/O error) does not throw into the loop and marks
\* neither the task nor the Run failed: it returns a string with the failure prefix,
\* stepsExecuted is incremented as for a success, and the task's status is then set
\* from the Reflector's verdict (done when reflection is disabled, as for a success).
C21_ToolFailuresDoNotAbort ==
    [][ /\ (pc = "exec" /\ pc' # "exec" /\ ToolFails(response')) =>
              /\ pc' # "catchTask" /\ ~toolOutput'.thrown /\ ~toolOutput'.success
              /\ result' = "Tool failed"
              /\ stepsExecuted' = stepsExecuted + 1
              /\ retries' = retries
              /\ status' # "failed" /\ tasks'[i].status # "failed"
              /\ IF cfg.reflectionEnabled
                 THEN pc' = "reflect" /\ tasks'[i].status = "running"
                 ELSE pc' = "taskEnd" /\ tasks'[i].status = "done"
        /\ (pc = "decide" /\ pc' = "taskEnd" /\ result = "Tool failed") =>
              tasks'[i].status = (IF Truthy(reflection.success) THEN "done" ELSE "failed")
      ]_vars

C21_Witness ==
    /\ Returned /\ ToolFails(response) /\ response.fault = "ioerror"
    /\ tasks[1].result = "Tool failed" /\ tasks[1].status = "done"
    /\ status = "completed" /\ stepsExecuted = 1

(***************************************************************************)
(* A succession of runAgent invocations over one goal table.  A caller     *)
(* either leaves the id to runAgent or supplies it: enqueueAgentRun takes  *)
(* params.agentId, the worker hands job.data.agentId to runAgent, and a    *)
(* job that is processed again hands over the same agentId.  Of a run      *)
(* only its addGoal and its closing updateGoalStatus are kept.             *)
(***************************************************************************)
MaxRuns == 3

\* the agentId values callers supply (queue.ts line 23, worker line 50)
SuppliedIds == {"agentA", "agentB"}
ForcedIds == {"undefined"} \cup SuppliedIds

RunOutcomes == {"completed", "failed", "paused"}

InitRuns ==
    /\ RunIdle /\ ToolIdle /\ PatchIdle /\ LedgerIdle /\ ServiceIdle
    /\ RecentIdle /\ LlmIdle /\ WatchdogIdle /\ ExecIdle
    /\ runsPc = "idle"
    /\ runsDone = <<>>
    /\ fileDoc = "whole"

\* lines 208 and 228: the id of the run and its GoalRecord
invocationStarts(forcedId) ==
    /\ runsPc = "idle"
    /\ Len(runsDone) < MaxRuns
    /\ stateId' = StateIdOf(forcedId, generateId(Len(runsDone) + 1))
    /\ goals' = addGoal(goals, stateId')
    /\ runsPc' = "running"
    /\ UNCHANGED <<toolVars, patchVars, ledgerVars, gatewayVars, sharedVars, workerVars,
                   recentVars, llmVars, watchdogVars, execVars,
                   pc, cfg, status, tasks, currentTask, stepsExecuted, i, retries, result, resp,
                   reflection, caught, lastEmit, resumePc, unfinished, goalsBefore, resumed,
                   runsDone, fileDoc>>

\* lines 345-361: the status update that closes the run; a paused run makes none
invocationEnds(outcome) ==
    /\ runsPc = "running"
    /\ goals' = IF outcome = "paused" THEN goals
                ELSE updateGoalStatus(goals, stateId, outcome)
    /\ runsDone' = Append(runsDone, [id |-> stateId, outcome |-> outcome])
    /\ runsPc' = "idle"
    /\ UNCHANGED <<toolVars, patchVars, ledgerVars, gatewayVars, sharedVars, workerVars,
                   recentVars, llmVars, watchdogVars, execVars,
                   pc, cfg, status, tasks, currentTask, stepsExecuted, i, retries, result, resp,
                   reflection, caught, lastEmit, resumeVars, fileDoc>>

NextRuns ==
    \/ \E forcedId \in ForcedIds : invocationStarts(forcedId)
    \/ \E outcome \in RunOutcomes : invocationEnds(outcome)

SpecRuns == InitRuns /\ [][NextRuns]_vars

\* no two GoalRecords have the same id
OneRecordPerId == \A j, k \in 1..Len(goals) : goals[j].id = goals[k].id => j = k

\* the run that is returning updates the GoalRecord it created, which is the last of
\* the table since runs follow one another
UpdatesOwnRecord ==
    (runsPc = "running" /\ runsPc' = "idle" /\ runsDone'[Len(runsDone')].outcome # "paused")
        => goals'[Len(goals)].status = runsDone'[Len(runsDone')].outcome

\* C32: after any succession of runAgent invocations, with ids generated or supplied
\* by the caller, the goal table holds at most one GoalRecord per id, and the status
\* update that ends a run changes the record that run created.
C32_OneGoalRecordPerRun == []OneRecordPerId /\ [][UpdatesOwnRecord]_vars

(***************************************************************************)
(* The ledger file under a save that is in progress.  saveMemory is        *)
(* fs.writeFileSync on the ledger file itself: the file is opened with     *)
(* truncation and then written, in one write or in several, and between    *)
(* these system calls another process can read it.  loadMemory parses      *)
(* what it reads and, when JSON.parse throws, returns the empty ledger of  *)
(* lines 334-338.  entries and goals are the document written last.        *)
(***************************************************************************)
\* the entry the ledger holds before any of the calls
FirstEntry == Entry(0, "task", OtherId)

\* lines 326-338: the parsed file, or the empty ledger when the text is not a document
loadMemoryFrom(doc) == IF doc = "whole" THEN loadMemory ELSE NoMem

InitTorn ==
    /\ RunIdle /\ ToolIdle /\ PatchIdle
    /\ GatewayIdle /\ ResumeIdle /\ WorkerIdle /\ SharedIdle
    /\ RecentIdle /\ LlmIdle /\ WatchdogIdle /\ ExecIdle
    /\ entries = <<FirstEntry>>
    /\ appended = 0
    /\ runsPc = "off"
    /\ runsDone = <<>>
    /\ fileDoc = "whole"

\* addMemoryEntry, line 356: the process reads the file
tornLoad(w) ==
    /\ procPc[w] = "idle"
    /\ appended < MaxCalls
    /\ procOp' = [procOp EXCEPT ![w] = [kind |-> "entry", id |-> "", status |-> "",
                                       n |-> appended + 1]]
    /\ procMem' = [procMem EXCEPT ![w] = loadMemoryFrom(fileDoc)]
    /\ procPc' = [procPc EXCEPT ![w] = "loaded"]
    /\ appended' = appended + 1
    /\ UNCHANGED <<runVars, toolVars, patchVars, gatewayVars, resumeVars, workerVars,
                   recentVars, llmVars, watchdogVars, execVars,
                   entries, completed, runsPc, runsDone, fileDoc>>

\* saveMemory, line 344: writeFileSync opens the file, which truncates it
tornOpen(w) ==
    /\ procPc[w] = "loaded"
    /\ procPc' = [procPc EXCEPT ![w] = "writing"]
    /\ fileDoc' = "empty"
    /\ UNCHANGED <<runVars, toolVars, patchVars, gatewayVars, resumeVars, workerVars,
                   recentVars, llmVars, watchdogVars, execVars,
                   entries, appended, procMem, procOp, completed, runsPc, runsDone>>

\* a write that put only the beginning of the text into the file
tornWritePart(w) ==
    /\ procPc[w] = "writing"
    /\ fileDoc = "empty"
    /\ fileDoc' = "partial"
    /\ UNCHANGED <<runVars, toolVars, patchVars, gatewayVars, resumeVars, workerVars,
                   recentVars, llmVars, watchdogVars, execVars,
                   entries, appended, sharedVars, runsPc, runsDone>>

\* the write that completes the text, and the return of addMemoryEntry; when another
\* process has the file open for writing too, the bytes of the two can mix
tornWriteRest(w) ==
    /\ procPc[w] = "writing"
    /\ entries' = Changed(procMem[w], procOp[w]).entries
    /\ completed' = completed \cup {procOp[w]}
    /\ \E doc \in (IF \E x \in Procs \ {w} : procPc[x] = "writing"
                   THEN {"whole", "partial"} ELSE {"whole"}) : fileDoc' = doc
    /\ procPc' = [procPc EXCEPT ![w] = "idle"]
    /\ procMem' = [procMem EXCEPT ![w] = NoMem]
    /\ procOp' = [procOp EXCEPT ![w] = NoOp]
    /\ UNCHANGED <<toolVars, patchVars, gatewayVars, resumeVars, workerVars,
                   recentVars, llmVars, watchdogVars, execVars,
                   pc, cfg, status, tasks, currentTask, stepsExecuted, i, retries, result, resp,
                   reflection, caught, goals, lastEmit, appended, runsPc, runsDone>>

NextTorn ==
    \/ \E w \in Procs : tornLoad(w)
    \/ \E w \in Procs : tornOpen(w)
    \/ \E w \in Procs : tornWritePart(w)
    \/ \E w \in Procs : tornWriteRest(w)

SpecTorn == InitTorn /\ [][NextTorn]_vars

\* what a process loads is the document the file held last
LoadsWholeLedger ==
    \A w \in Procs :
        (procPc[w] = "idle" /\ procPc'[w] = "loaded")
            => procMem'[w] = [entries |-> entries, goals |-> goals]

\* the entry the ledger held at the start is in every document written later
FirstEntryKept == \E k \in 1..Len(entries) : entries[k] = FirstEntry

\* C33: a process that loads the ledger while another saves it gets the ledger as it
\* was before the save or as it is after it, never a partial one; no load yields an
\* empty ledger that the following append writes back over the existing entries.
C33_NoTornRead == []FirstEntryKept /\ [][LoadsWholeLedger]_vars
====
